---- MODULE Spec2Model ----
(***************************************************************************)
(* A model of empty-status: the per-unit machine actors and the periodic   *)
(* aggregator (src/machine/runtime.rs), the effects engine                 *)
(* (src/machine/effects.rs) and the rate-limited client pool               *)
(* (src/machine/http.rs).  Time is counted in whole seconds.               *)
(***************************************************************************)
EXTENDS Integers, Sequences, FiniteSets, TLC

(***************************************************************************)
(* Bounds of the model.                                                    *)
(***************************************************************************)
\* The clock stops advancing at MaxTime seconds.
MaxTime == 10
\* How many click lines the host writes to standard input: to one unit
\* (Spec), to a bar of two units (SpecBar), to another block after one
\* click on the unit (SpecBurst).
MaxClicks == 2
BarClicks == 1
BurstClicks == 16
\* The effects engine is asked at most MaxRequests times, over MaxCacheTime
\* seconds.
MaxRequests == 3
MaxCacheTime == 2
\* A child process writes at most MaxLines lines; a ProcKey sees at most
\* MaxSpawns spawned children.
MaxLines == 2
MaxSpawns == 2
\* How many units are handed to Status::new at most.
MaxUnits == 3
\* How many raw lines standard input carries at most.
MaxInput == 3
\* The characters of an error message that follow its padding.
MaxTail == 3

(***************************************************************************)
(* Program constants and configuration.                                    *)
(***************************************************************************)
\* poll_timeout = Duration::from_secs(10)
PollTimeout == 10
\* tokio::sync::broadcast::channel::<ClickEvent>(16)
ClickCapacity == 16

\* Handles are assigned in configuration order.
Units == {0, 1}
\* The unit machines a configuration names are "Weather" and "Time"
\* (WeatherMachine and TimeMachine of machine/units) and "Machine", which
\* stands for any implementation of the trait UnitMachine.
\* GlobalConfig and the per-unit SchedulingCfg, in seconds.
gcfg == [min_polling_interval |-> 5, padding |-> 1]
cfg == [u \in Units |-> [poll_interval |-> IF u = 0 THEN 10 ELSE 1]]


VARIABLES
    stdin,          \* the names of the clicks the host has yet to write
    machines,       \* the configured unit machines, in configuration order
    now,            \* the clock (tokio::time::Instant::now), in seconds
    pc,             \* per unit: "select" (waiting in select!) or "polling"
    next_poll,      \* per unit: the movable poll deadline
    poll_start,     \* per unit: when the poll in flight was invoked
    poll_due,       \* per unit: when the poll in flight returns (Never: it stalls)
    tick_at,        \* per unit: deadline of the render tick interval
    poll_tick_at,   \* per unit: deadline of the poll tick interval
    pending_click,  \* per unit: Option<ClickEvent>
    recv_off,       \* per unit: the recv branch is disabled in this select!
    view,           \* per unit: the value in the watch channel
    changed,        \* per unit: the aggregator's has_changed() flag
    clicked,        \* per unit: the clicks passed to on_click, in order
    chan,           \* every click broadcast so far, oldest first
    cursor,         \* per unit: how many broadcast clicks its receiver passed
    latest,         \* the aggregator's map handle -> OutputChunk
    agg_at,         \* deadline of the aggregator's interval
    line,           \* the status line written last
    nlines,         \* how many status lines were written
    inpoll,         \* per unit: its latest click broadcast during the poll in flight
    superseded,     \* per unit: its clicks that a later click of the same poll replaced
    polled,         \* per unit: how its last poll ended ("None": it has not polled)
    decided,        \* per unit: whether a decision of its last poll arm was PollNow;
                    \* until a poll arm ends, the decision of init where it is modelled
    cache,          \* EffectEngine.http / fs / dirs: per kind and key, Option<entry>
    req,            \* per caller: the effect request it has in flight
    nreq,           \* how many requests were issued
    fills,          \* per kind and key: the entries cached so far that are not yet stale
    procs,          \* EffectEngine.procs: per ProcKey, Option<ProcState>
    plock,          \* the caller holding the procs mutex, 0 when it is free
    pcall,          \* per caller: the proc_batch call it is in
    children,       \* per ProcKey: how many child processes were spawned
    written,        \* per ProcKey: how many lines the child has written
    exited,         \* per ProcKey: the child has exited
    pipe,           \* per ProcKey: the lines in the child's stdout pipe
    reader,         \* per ProcKey: the state of the spawned reader task
    rx,             \* per ProcKey: the lines in the unbounded channel
    delivered,      \* per ProcKey: the non-empty batches returned, in call order
    batch,         \* per ProcKey: what the last proc_batch call for it took and returned
    clients,        \* ClientPool.inner: per host, Option<the spec its client was built with>
    tokens,         \* per limiter: the tokens in its bucket
    hreq,           \* per caller: the HTTP request it has sent to the client
    units,          \* the names of the units handed to Status::new, in order
    status,         \* what became of Status::new and Status::run
    tasks,          \* how many unit tasks Status::run has spawned
    header,         \* the protocol header was written to standard output
    apc,            \* where run_empty_status_machines is: "header", "initial" or "loop"
    input,          \* the raw lines of standard input that were not read yet
    read,           \* the raw lines of standard input read so far, oldest first
    extract,        \* per caller: the EffectOut it extracts a payload from
    disk,           \* the State of the Disk machine: the fields of its Disk
    dpoll,          \* the poll of the Disk machine under the actor's timeout
    failed,         \* Option: the message of the unit error the poll returned
    shown,          \* what became of rendering that error
    guard,          \* per cache kind: the caller holding its mutex, 0 when it is free
    fetch,          \* per caller: where it is in http_get / fs_read / fs_list_dir
    cached,         \* per cache kind: the keys that have a fresh entry
    snap,           \* the chunks the aggregator is about to write, in display order
    outline         \* Option: the line written to standard output, as tokens

Max(a, b) == IF a >= b THEN a ELSE b

\* The unit with handle u is part of the configuration.
Configured(u) == u < Len(machines)
\* UnitMachine::name of the unit with handle u.
MachineName(u) == IF Configured(u) THEN machines[u + 1] ELSE "Machine"
\* A display name that is the same for every unit.
I3NameShared(u) == <<"unit">>
\* i3_name = format!("{}::{}", machine.name(), handle)
I3Name(u) == <<MachineName(u), u>>

\* A backoff that doubles the configured interval.
PollBackoffDoubled(u) == 2 * Max(cfg[u].poll_interval, gcfg.min_polling_interval)

\* poll_backoff = poll_interval.max(min_polling_interval)
PollBackoff(u) == Max(cfg[u].poll_interval, gcfg.min_polling_interval)
\* poll_interval of the poll_tick timer: the same floor applies
PollInterval(u) == Max(cfg[u].poll_interval, gcfg.min_polling_interval)
\* tick_interval = min_polling_interval
TickInterval == gcfg.min_polling_interval

actorVars == <<pc, next_poll, poll_start, tick_at, poll_tick_at, pending_click,
               recv_off, view, changed, clicked, cursor, poll_due>>
aggVars == <<latest, agg_at, line, nlines, header, apc>>
hostVars == <<stdin>>
ghost == <<inpoll, superseded, polled, decided>>
ctorVars == <<units, status, tasks>>
readerVars == <<input, read>>
outVars == <<extract>>
unitVars == <<disk, dpoll>>
renderVars == <<failed, shown>>
lockVars == <<guard, fetch, cached>>
lineVars == <<snap, outline>>
confVars == <<machines, unitVars, renderVars, lockVars, lineVars, ctorVars, readerVars, outVars>>
barVars == <<confVars, hostVars, ghost, actorVars, chan, aggVars>>
cacheVars == <<cache, req, nreq, fills>>
procVars == <<procs, plock, pcall, children, written, exited, pipe, reader, rx, delivered,
              batch>>
rateVars == <<clients, tokens, hreq>>
effVars == <<cacheVars, procVars, rateVars>>
vars == <<now, barVars, effVars>>

(***************************************************************************)
(* Rendering (runtime.rs).                                                 *)
(***************************************************************************)
\* A rendering that shows a timeout as a degraded view, not as an error.
render_poll_error_degraded(err) ==
    CASE err = "Timeout"   -> [body |-> "timeout", health |-> "Degraded"]
      [] err = "Transport" -> [body |-> "transport", health |-> "Error"]
      [] err = "Unit"      -> [body |-> "unit", health |-> "Error"]

\* render_poll_error: every PollError renders with Health::Error.
render_poll_error(err) ==
    CASE err = "Timeout"   -> [body |-> "timeout", health |-> "Error"]
      [] err = "Transport" -> [body |-> "transport", health |-> "Error"]
      [] err = "Unit"      -> [body |-> "unit", health |-> "Error"]

\* A rendering that shows a loading unit as healthy.
render_availability_plain(av) ==
    CASE av.kind = "Loading" -> [body |-> "loading", health |-> "Ok"]
      [] av.kind = "Ready"   -> [body |-> av.body, health |-> "Ok"]
      [] av.kind = "Failed"  -> render_poll_error(av.err)

\* render_availability: Loading -> Degraded, Ready -> View::ok, Failed -> error.
render_availability(av) ==
    CASE av.kind = "Loading" -> [body |-> "loading", health |-> "Degraded"]
      [] av.kind = "Ready"   -> [body |-> av.body, health |-> "Ok"]
      [] av.kind = "Failed"  -> render_poll_error(av.err)

\* make_chunk: the border colour follows the health.
make_chunk(u, v) ==
    [name |-> I3Name(u),
     full_text |-> <<gcfg.padding, v.body, gcfg.padding>>,
     border |-> CASE v.health = "Ok" -> "default"
                  [] v.health = "Degraded" -> "YELLOW"
                  [] v.health = "Error" -> "RED"]

\* i3bar_order: the handles in reverse configuration order.
RECURSIVE Reverse(_)
Reverse(s) == IF s = <<>> THEN <<>> ELSE Append(Reverse(Tail(s)), Head(s))
\* handles: one per configured unit, in configuration order.
RECURSIVE UpTo(_)
UpTo(n) == IF n = 0 THEN <<>> ELSE Append(UpTo(n - 1), n - 1)
Handles == UpTo(Len(machines))
\* A display order that keeps the configuration order.
i3bar_order_unreversed == Handles
i3bar_order == Reverse(Handles)

(***************************************************************************)
(* What a unit machine may answer (types.rs, trait UnitMachine).           *)
(***************************************************************************)
\* Option<T>: the empty sequence is None, <<x>> is Some(x).
Some(x) == <<x>>
\* on_tick: (Option<View>, UnitDecision).  Every machine of machine/units
\* answers (None, Idle); the trait allows any answer.
OnTickOut(u) ==
    IF MachineName(u) = "Machine"
    THEN {[view |-> <<>>, decision |-> "Idle"],
          [view |-> Some([body |-> "cached", health |-> "Ok"]), decision |-> "PollNow"]}
    ELSE {[view |-> <<>>, decision |-> "Idle"]}
\* on_click: (Option<View>, UnitDecision).  TimeMachine answers
\* (None, PollNow), WeatherMachine (Some(View::ok(last view)), PollNow).
OnClickOut(u) ==
    CASE MachineName(u) = "Time" -> {[view |-> <<>>, decision |-> "PollNow"]}
      [] MachineName(u) = "Weather" ->
            {[view |-> Some([body |-> "cached", health |-> "Ok"]), decision |-> "PollNow"]}
      [] OTHER -> {[view |-> <<>>, decision |-> "PollNow"],
                   [view |-> <<>>, decision |-> "Idle"],
                   [view |-> Some([body |-> "cached", health |-> "Ok"]),
                    decision |-> "PollNow"]}
\* How long a poll takes, in seconds; Never: it does not return.  The poll
\* of TimeMachine reads the clock and returns at once.
Never == -1
PollDurations(u) == IF MachineName(u) = "Time" THEN {0} ELSE {0, 3, Never}
\* poll may return Err(UnitError); the poll of TimeMachine is always Ok.
PollMayFail(u) == MachineName(u) # "Time"
\* on_poll_ok: (Availability<Markup, PollError<E>>, UnitDecision)
\* The machines of machine/units answer (Ready(body), Idle).
PollOkOut(u) ==
    IF MachineName(u) = "Machine"
    THEN {[availability |-> [kind |-> "Ready", body |-> "fresh"], decision |-> "Idle"],
          [availability |-> [kind |-> "Ready", body |-> "fresh"], decision |-> "PollNow"],
          [availability |-> [kind |-> "Loading"], decision |-> "Idle"],
          [availability |-> [kind |-> "Failed", err |-> "Transport"], decision |-> "Idle"]}
    ELSE {[availability |-> [kind |-> "Ready", body |-> "fresh"], decision |-> "Idle"]}
\* machine.init(): the loading view when fix_up_and_validate answers Ok.
InitViews == {[body |-> "loading", health |-> "Degraded"]}
\* WeatherMachine::init when fix_up_and_validate answers Err (a latitude or
\* longitude out of range): the message of the error with Health::Error.
InitViewsInvalid == {[body |-> "bad config", health |-> "Error"]}

(***************************************************************************)
(* Timers.                                                                 *)
(***************************************************************************)
\* tokio Interval with MissedTickBehavior::Skip: the next deadline is the
\* first multiple of the period, counted from the missed deadline, after now.
NextTick(deadline, period) == now + period - ((now - deadline) % period)

\* tokio::time::timeout(poll_timeout, poll): the deadline of the poll in flight.
PollDeadline(u) == poll_start[u] + PollTimeout

(***************************************************************************)
(* The broadcast channel of clicks (tokio::sync::broadcast, capacity 16).  *)
(***************************************************************************)
\* The receiver of unit u has fallen behind the retained window.
Lagged(u) == Len(chan) - cursor[u] > ClickCapacity
\* click_rx.recv() would complete now.
RecvReady(u) == cursor[u] < Len(chan)

(***************************************************************************)
(* The machine actor: one task per unit (spawn_machine_actor).             *)
(***************************************************************************)
\* A runtime that awaits every poll on one shared task: no actor runs its
\* select! while any poll is in flight.
InSelectSerial(u) == Configured(u) /\ \A v \in Units : pc[v] = "select"

\* A loop whose other arms stay live while the poll is awaited.
InSelectDuringPoll(u) == Configured(u)

\* The task of unit u is scheduled independently of every other task: it
\* waits in its own select! unless its own poll is in flight.
InSelect(u) == Configured(u) /\ pc[u] = "select"

\* A channel whose send replaces the value without marking it as changed.
PublishUnmarked(u, mv) ==
    IF mv = <<>>
    THEN UNCHANGED <<view, changed>>
    ELSE /\ view' = [view EXCEPT ![u] = mv[1]]
         /\ UNCHANGED changed

\* let _ = view_tx.send(view), for Some(view)
Publish(u, mv) ==
    IF mv = <<>>
    THEN UNCHANGED <<view, changed>>
    ELSE /\ view' = [view EXCEPT ![u] = mv[1]]
         /\ changed' = [changed EXCEPT ![u] = TRUE]

\* A loop that does not look at the decision.
DecideNever(deadline, decision) == deadline

\* A loop that polls again at once whatever the decision.
DecideAlways(deadline, decision) == now

\* if decision == PollNow { next_poll = Instant::now() }
Decide(deadline, decision) == IF decision = "PollNow" THEN now ELSE deadline

\* select! arm: _ = tick.tick()
TickArm(u) ==
    /\ InSelect(u)
    /\ now >= tick_at[u]
    /\ \E out \in OnTickOut(u) :
          /\ Publish(u, out.view)
          /\ next_poll' = [next_poll EXCEPT ![u] = Decide(@, out.decision)]
    /\ tick_at' = [tick_at EXCEPT ![u] = NextTick(@, TickInterval)]
    /\ recv_off' = [recv_off EXCEPT ![u] = FALSE]
    /\ UNCHANGED <<effVars, confVars, hostVars, ghost, now, pc, poll_start, poll_tick_at, pending_click, clicked,
                   cursor, poll_due, chan, aggVars>>

\* select! arm: _ = poll_tick.tick()
PollTickArm(u) ==
    /\ InSelect(u)
    /\ now >= poll_tick_at[u]
    /\ next_poll' = [next_poll EXCEPT ![u] = now]
    /\ poll_tick_at' = [poll_tick_at EXCEPT ![u] = NextTick(@, PollInterval(u))]
    /\ recv_off' = [recv_off EXCEPT ![u] = FALSE]
    /\ UNCHANGED <<effVars, confVars, hostVars, ghost, now, pc, poll_start, tick_at, pending_click, view, changed,
                   clicked, cursor, poll_due, chan, aggVars>>

\* The click the receiver of unit u gets next.
NextClick(u) == [id |-> cursor[u] + 1, name |-> chan[cursor[u] + 1]]

\* machine.on_click(&mut state, click) and what the actor does with its answer.
ApplyClick(u, click, deadline) ==
    \E out \in OnClickOut(u) :
       /\ clicked' = [clicked EXCEPT ![u] = Append(@, click.id)]
       /\ Publish(u, out.view)
       /\ next_poll' = [next_poll EXCEPT ![u] = Decide(deadline, out.decision)]

\* A loop that buffers every click it receives for the poll arm to apply.
BufferedAlways(u) == TRUE

\* if pending_click.is_some()
Buffered(u) == pending_click[u] # <<>>

\* select! arm: Ok(click) = click_rx.recv().  A Lagged error does not match
\* the pattern: the receiver skips to the oldest retained click and the
\* branch stays disabled until the loop enters select! again.
ClickArm(u) ==
    /\ InSelect(u)
    /\ ~recv_off[u]
    /\ RecvReady(u)
    /\ IF Lagged(u)
       THEN /\ cursor' = [cursor EXCEPT ![u] = Len(chan) - ClickCapacity]
            /\ recv_off' = [recv_off EXCEPT ![u] = TRUE]
            /\ UNCHANGED <<pending_click, clicked, view, changed, next_poll>>
       ELSE /\ cursor' = [cursor EXCEPT ![u] = @ + 1]
            /\ recv_off' = recv_off
            /\ IF NextClick(u).name # I3Name(u)
               THEN UNCHANGED <<pending_click, clicked, view, changed, next_poll>>
               ELSE IF Buffered(u)
               THEN /\ pending_click' = [pending_click EXCEPT ![u] = Some(NextClick(u))]
                    /\ UNCHANGED <<clicked, view, changed, next_poll>>
               ELSE /\ ApplyClick(u, NextClick(u), next_poll[u])
                    /\ UNCHANGED pending_click
    /\ UNCHANGED <<effVars, confVars, hostVars, ghost, now, pc, poll_start, poll_due, tick_at, poll_tick_at, chan, aggVars>>

\* The UnitDecision of machine.init(): PollNow for the machines of
\* machine/units, either for another implementation of the trait.
InitDecisions(u) ==
    IF MachineName(u) = "Machine" THEN {"Idle", "PollNow"} ELSE {"PollNow"}

\* A task that polls at once only when init asked for it, and else waits
\* for its first poll-tick.
FirstPollOnRequest(u, decision0) ==
    IF decision0 = "PollNow" THEN now ELSE now + PollInterval(u)

\* let mut next_poll = Instant::now();
\* if decision0 == PollNow { next_poll = Instant::now(); }
FirstPoll(u, decision0) == IF decision0 = "PollNow" THEN now ELSE now

\* select! arm: () = sleep_until(next_poll); the arm invokes machine.poll
\* under tokio::time::timeout and suspends until it returns or times out.
PollArm(u) ==
    /\ InSelect(u)
    /\ now >= next_poll[u]
    /\ pc' = [pc EXCEPT ![u] = "polling"]
    /\ poll_start' = [poll_start EXCEPT ![u] = now]
    /\ \E d \in PollDurations(u) :
          poll_due' = [poll_due EXCEPT ![u] = IF d = Never THEN Never ELSE now + d]
    /\ UNCHANGED <<effVars, confVars, hostVars, ghost, now, next_poll, tick_at, poll_tick_at, pending_click, recv_off,
                   view, changed, clicked, cursor, chan, aggVars>>

\* How a poll ended: the PollError of a failure, else the kind of the
\* availability that on_poll_ok answered.
Ended(availability) ==
    IF availability.kind = "Failed" THEN availability.err ELSE availability.kind

\* The rest of the poll arm, from the outcome `out` of the timed poll:
\* back off, interpret the outcome, publish, apply the buffered click.
AfterPoll(u, outcome, answer) ==
    LET backoff == now + PollBackoff(u)
        availability == IF outcome = "Ok" THEN answer.availability
                        ELSE [kind |-> "Failed", err |-> outcome]
        decision == IF outcome = "Ok" THEN answer.decision ELSE "Idle"
        rendered == render_availability(availability)
        deadline == Decide(backoff, decision)
    IN  /\ pc' = [pc EXCEPT ![u] = "select"]
        /\ recv_off' = [recv_off EXCEPT ![u] = FALSE]
        /\ pending_click' = [pending_click EXCEPT ![u] = <<>>]
        /\ IF pending_click[u] = <<>>
           THEN /\ view' = [view EXCEPT ![u] = rendered]
                /\ changed' = [changed EXCEPT ![u] = TRUE]
                /\ next_poll' = [next_poll EXCEPT ![u] = deadline]
                /\ decided' = [decided EXCEPT ![u] = decision]
                /\ UNCHANGED clicked
           ELSE \E out \in OnClickOut(u) :
                   /\ decided' = [decided EXCEPT ![u] =
                                     IF "PollNow" \in {decision, out.decision}
                                     THEN "PollNow" ELSE "Idle"]
                   /\ clicked' = [clicked EXCEPT ![u] = Append(@, pending_click[u][1].id)]
                   /\ view' = [view EXCEPT ![u] =
                                  IF out.view = <<>> THEN rendered ELSE out.view[1]]
                   /\ changed' = [changed EXCEPT ![u] = TRUE]
                   /\ next_poll' = [next_poll EXCEPT ![u] = Decide(deadline, out.decision)]
        \* the timed poll is dropped
        /\ poll_start' = [poll_start EXCEPT ![u] = 0]
        /\ poll_due' = [poll_due EXCEPT ![u] = Never]
        /\ inpoll' = [inpoll EXCEPT ![u] = 0]
        /\ polled' = [polled EXCEPT ![u] = Ended(availability)]
        /\ UNCHANGED <<effVars, confVars, hostVars, superseded, now, tick_at, poll_tick_at, cursor, chan, aggVars>>

\* The poll in flight returns before its timeout elapses.
WillReturn(u) == poll_due[u] # Never /\ poll_due[u] < PollDeadline(u)

\* machine.poll returns before the timeout: Ok(Ok(v)) or Ok(Err(e)).
PollReturns(u) ==
    /\ Configured(u)
    /\ pc[u] = "polling"
    /\ WillReturn(u)
    /\ now >= poll_due[u]
    /\ \/ \E answer \in PollOkOut(u) : AfterPoll(u, "Ok", answer)
       \/ /\ PollMayFail(u)
          /\ AfterPoll(u, "Unit", [availability |-> [kind |-> "Loading"], decision |-> "Idle"])

\* The timeout elapses first: Err(_) => PollError::Transport(Timeout).
PollTimesOut(u) ==
    /\ Configured(u)
    /\ pc[u] = "polling"
    /\ ~WillReturn(u)
    /\ now >= PollDeadline(u)
    /\ AfterPoll(u, "Timeout", [availability |-> [kind |-> "Loading"], decision |-> "Idle"])

(***************************************************************************)
(* The click reader (core.rs, read_clicks_task) fans clicks out.           *)
(***************************************************************************)
\* let _ = click_tx.send(click)
Broadcast(name) == chan' = Append(chan, name)

\* A click named `name` is addressed to unit u and finds its poll in flight.
DuringPoll(u, name) == Configured(u) /\ pc[u] = "polling" /\ name = I3Name(u)

\* The host's clicks are paced by a person: an actor that waits in select!
\* receives the click before the host writes the next one.
ActorsCaughtUp == \A u \in Units : InSelect(u) => (recv_off[u] \/ ~RecvReady(u))

ReadClick ==
    /\ stdin # <<>>
    /\ ActorsCaughtUp
    /\ stdin' = Tail(stdin)
    /\ LET name == Head(stdin) IN
          /\ Broadcast(name)
          /\ inpoll' = [u \in Units |->
                IF DuringPoll(u, name) THEN Len(chan) + 1 ELSE inpoll[u]]
          /\ superseded' = [u \in Units |->
                IF DuringPoll(u, name) /\ inpoll[u] # 0
                THEN superseded[u] \cup {inpoll[u]} ELSE superseded[u]]
    /\ UNCHANGED <<effVars, confVars, now, actorVars, aggVars, polled, decided>>

(***************************************************************************)
(* The click reader, line by line (core.rs, read_clicks_task).             *)
(***************************************************************************)
\* A raw line is a sequence of pieces of text: a comma, a blank, the opening
\* bracket, the JSON object of a click on unit u ("click0", "click1"), or
\* text that is no click object ("junk").
ClickTexts == {"click0", "click1"}

\* The lines the host may write: the opening bracket of the array, click
\* objects with and without the commas that separate them, an empty line, a
\* blank line and a line that is no click object.
RawLines ==
    {<<"[">>, <<"click0">>, <<",", "click1">>, <<" ", "click0", ",", " ">>,
     <<>>, <<" ">>, <<",", "junk">>}

\* str::trim_start_matches(c) and str::trim_end_matches(c)
RECURSIVE TrimStart(_, _)
TrimStart(l, c) == IF l # <<>> /\ Head(l) = c THEN TrimStart(Tail(l), c) ELSE l
RECURSIVE TrimEnd(_, _)
TrimEnd(l, c) ==
    IF l # <<>> /\ l[Len(l)] = c THEN TrimEnd(SubSeq(l, 1, Len(l) - 1), c) ELSE l
\* str::trim: the white space at both ends is removed.
Trim(l) == TrimEnd(TrimStart(l, " "), " ")

\* serde_json::from_str::<ClickEvent>: white space around the value is
\* accepted; Some(click) when the text is one click object, else None.
FromStr(l) ==
    LET text == Trim(l)
    IN  IF Len(text) = 1 /\ text[1] \in ClickTexts
        THEN Some(I3Name(IF text[1] = "click0" THEN 0 ELSE 1))
        ELSE <<>>

\* The body of the loop for one line: None for an empty line (continue) and
\* for a line that does not parse (warn!), else the click to send.
ParseLine(l) ==
    LET trimmed == Trim(l)
    IN  IF trimmed = <<>> THEN <<>>
        ELSE FromStr(TrimStart(TrimEnd(trimmed, ","), ","))

\* if let Ok(Some(_)) = lines.next_line().await: the first and the second
\* line are read and dropped.
ReaderSkip ==
    /\ Len(read) < 2
    /\ input # <<>>
    /\ read' = Append(read, Head(input))
    /\ input' = Tail(input)
    /\ UNCHANGED <<effVars, machines, unitVars, renderVars, lockVars, lineVars, outVars, ctorVars, hostVars, ghost, now, actorVars, chan, aggVars>>

\* while let Ok(Some(line)) = lines.next_line().await: one turn of the loop.
ReaderLine ==
    /\ Len(read) >= 2
    /\ input # <<>>
    /\ read' = Append(read, Head(input))
    /\ input' = Tail(input)
    /\ IF ParseLine(Head(input)) = <<>>
       THEN UNCHANGED chan
       ELSE Broadcast(ParseLine(Head(input))[1])
    /\ UNCHANGED <<effVars, machines, unitVars, renderVars, lockVars, lineVars, outVars, ctorVars, hostVars, ghost, now, actorVars, aggVars>>

(***************************************************************************)
(* The aggregator (run_empty_status_machines).                             *)
(***************************************************************************)
\* The chunks of `latest` in display order, as one status line.
LineOf(snapshot) == [i \in 1..Len(i3bar_order) |-> snapshot[i3bar_order[i]]]

\* println!("{\"version\":1,\"click_events\":true}\n[")
AggHeader ==
    /\ apc = "header"
    /\ header' = TRUE
    /\ apc' = "initial"
    /\ UNCHANGED <<effVars, confVars, hostVars, ghost, now, actorVars, chan,
                   latest, agg_at, line, nlines>>

\* A start that enters the loop without writing the initial line.
AggInitialLineSkipped ==
    /\ apc = "initial"
    /\ latest' = [h \in Units |-> make_chunk(h, view[h])]
    /\ agg_at' = now
    /\ apc' = "loop"
    /\ UNCHANGED <<effVars, confVars, hostVars, ghost, now, actorVars, chan, header,
                   line, nlines>>

\* From the header to the loop: the snapshot of every unit is taken with
\* borrow(), which leaves has_changed() as it is; the interval is created,
\* so that its first tick is due at once; the initial line is written.
AggInitialLine ==
    /\ apc = "initial"
    /\ latest' = [h \in Units |-> make_chunk(h, view[h])]
    /\ agg_at' = now
    /\ line' = LineOf(latest')
    /\ nlines' = nlines + 1
    /\ apc' = "loop"
    /\ UNCHANGED <<effVars, confVars, hostVars, ghost, now, actorVars, chan, header>>

\* A reactive loop: a tick on which no snapshot was refreshed writes nothing.
AggregatorTickIfChanged ==
    /\ apc = "loop"
    /\ now >= agg_at
    /\ latest' = [h \in Units |->
                     IF changed[h] THEN make_chunk(h, view[h]) ELSE latest[h]]
    /\ UNCHANGED <<header, apc>>
    /\ changed' = [h \in Units |-> FALSE]
    /\ IF \E h \in Units : changed[h]
       THEN line' = LineOf(latest') /\ nlines' = nlines + 1
       ELSE UNCHANGED <<line, nlines>>
    /\ agg_at' = NextTick(agg_at, gcfg.min_polling_interval)
    /\ UNCHANGED <<effVars, confVars, hostVars, ghost, now, pc, next_poll, poll_start, tick_at, poll_tick_at,
                   pending_click, recv_off, view, clicked, cursor, poll_due, chan>>

\* One turn of the periodic loop: refresh the changed snapshots, write a line.
AggregatorTick ==
    /\ apc = "loop"
    /\ now >= agg_at
    /\ latest' = [h \in Units |->
                     IF changed[h] THEN make_chunk(h, view[h]) ELSE latest[h]]
    /\ UNCHANGED <<header, apc>>
    /\ changed' = [h \in Units |-> FALSE]
    /\ line' = LineOf(latest')
    /\ nlines' = nlines + 1
    /\ agg_at' = NextTick(agg_at, gcfg.min_polling_interval)
    /\ UNCHANGED <<effVars, confVars, hostVars, ghost, now, pc, next_poll, poll_start, tick_at, poll_tick_at,
                   pending_click, recv_off, view, clicked, cursor, poll_due, chan>>

(***************************************************************************)
(* The clock.  A task that is ready runs before time passes.               *)
(***************************************************************************)
\* When the timed poll of unit u ends: its return, or else its timeout.
PollEnd(u) == IF WillReturn(u) THEN poll_due[u] ELSE PollDeadline(u)

ActorReady(u) ==
    IF InSelect(u)
    THEN \/ now >= tick_at[u]
         \/ now >= poll_tick_at[u]
         \/ now >= next_poll[u]
         \/ (RecvReady(u) /\ ~recv_off[u])
    ELSE Configured(u) /\ now >= PollEnd(u)

\* The earliest instant at which some timer is due.
NextEvent ==
    LET due == {agg_at}
               \cup UNION {IF InSelect(u) THEN {tick_at[u], poll_tick_at[u], next_poll[u]}
                            ELSE {PollEnd(u)} : u \in {h \in Units : Configured(h)}}
    IN  CHOOSE t \in due : \A x \in due : t <= x

Advance ==
    /\ \A u \in Units : ~ActorReady(u)
    /\ now < agg_at
    /\ NextEvent <= MaxTime
    /\ now' = NextEvent
    /\ UNCHANGED <<effVars, confVars, hostVars, ghost, actorVars, chan, aggVars>>

(***************************************************************************)
(* The unit set of core.rs: Status::new and the start of Status::run.      *)
(***************************************************************************)
\* Unit::name of the units that main.rs may hand to Status::new.
UnitNames == {"cpu", "mem", "time"}

\* A constructor that accepts every list of units.
DuplicateNameNever(us) == FALSE

\* names.insert(name) answers false for some unit: an earlier unit of the
\* list has the same name.
DuplicateName(us) == \E i, j \in 1..Len(us) : i < j /\ us[i] = us[j]

\* unit.process_chunk(color("unit '{name}' loading", VIOLET), padding)
LoadingChunk(name) ==
    [name |-> name, full_text |-> <<gcfg.padding, "loading", gcfg.padding>>]

\* Status::new: Err on a duplicate name before anything else is done; else
\* the loading chunk of every unit is stored and the value is returned.
StatusNew ==
    /\ status = "None"
    /\ IF DuplicateName(units)
       THEN /\ status' = "Err"
            /\ UNCHANGED latest
       ELSE /\ status' = "Ok"
            /\ latest' = [name \in {units[i] : i \in 1..Len(units)} |-> LoadingChunk(name)]
    /\ UNCHANGED <<effVars, machines, unitVars, renderVars, lockVars, lineVars, outVars, units, tasks, readerVars, hostVars, ghost, now,
                   actorVars, chan, agg_at, line, nlines, header, apc>>

\* Status::run, up to the first spawn: the header is printed and the click
\* reader is spawned.  main.rs calls run only on the Ok value of Status::new.
StatusRun ==
    /\ status = "Ok"
    /\ status' = "Running"
    /\ header' = TRUE
    /\ UNCHANGED <<effVars, machines, unitVars, renderVars, lockVars, lineVars, outVars, units, tasks, readerVars, hostVars, ghost, now,
                   actorVars, chan, latest, agg_at, line, nlines, apc>>

\* Status::run spawns one task per unit, in the order of the list.
StatusSpawn ==
    /\ status = "Running"
    /\ tasks < Len(units)
    /\ tasks' = tasks + 1
    /\ UNCHANGED <<effVars, machines, unitVars, renderVars, lockVars, lineVars, outVars, units, status, readerVars, hostVars, ghost, now,
                   actorVars, chan, aggVars>>

\* Status::run, after the last spawn: the writer is spawned, the initial
\* line is printed in the order of the list and the function parks.
StatusInitialLine ==
    /\ status = "Running"
    /\ tasks = Len(units)
    /\ status' = "Parked"
    /\ line' = [i \in 1..Len(units) |-> latest[units[i]]]
    /\ nlines' = nlines + 1
    /\ UNCHANGED <<effVars, machines, unitVars, renderVars, lockVars, lineVars, outVars, units, tasks, readerVars, hostVars, ghost, now,
                   actorVars, chan, latest, agg_at, header, apc>>

(***************************************************************************)
(* The effects engine: freshness caches (effects.rs).                      *)
(***************************************************************************)
\* HttpGet, FsRead and FsListDir each have a cache map of their own.
CacheKinds == {"http", "fs", "dir"}
\* The cache keys callers choose, and the tasks that issue requests.
Keys == {"k1"}
Callers == {1, 2}
\* cache_fresh_for of a request, in seconds.
FreshFor == {1, 2}
\* The payloads a resource may yield: it changes between fetches.
Payloads == {"old", "new"}
NoEntry == <<>>
Idle == [pc |-> "idle"]

\* The URLs (or paths) a request may name; the key is chosen apart from it.
Urls == {"u1", "u2"}

\* A lookup that takes every entry it finds, whatever its deadline.
FreshUnchecked(ent, at) == TRUE

\* now < ent.fresh_until
Fresh(ent, at) == at < ent.fresh_until

\* The lookup at the start of http_get / fs_read / fs_list_dir: the cached
\* payload if the entry is fresh at the instant the request started.
Lookup(kind, key, at) ==
    IF cache[kind][key] # NoEntry /\ Fresh(cache[kind][key][1], at)
    THEN Some(cache[kind][key][1].payload)
    ELSE <<>>

\* fresh_until: now + cache_fresh_for, with now read when the request started
FreshUntil(started, fresh_for) == started + fresh_for

\* A caller issues a request of one of `kinds` that names one of `urls`:
\* the engine reads the clock, looks the key up under the cache lock and
\* either answers from the cache or starts the I/O.
EffectStartFor(r, kinds, urls) ==
    /\ req[r].pc = "idle"
    /\ nreq < MaxRequests
    /\ nreq' = nreq + 1
    /\ \E kind \in kinds, key \in Keys, ff \in FreshFor, url \in urls :
          LET hit == Lookup(kind, key, now) IN
          req' = [req EXCEPT ![r] =
                    IF hit # <<>>
                    THEN [pc |-> "done", kind |-> kind, key |-> key, url |-> url,
                          result |-> "Ok", payload |-> hit, did_io |-> FALSE]
                    ELSE [pc |-> "io", kind |-> kind, key |-> key, url |-> url,
                          started |-> now, fresh_for |-> ff]]
    /\ UNCHANGED <<procVars, rateVars, now, barVars, cache, fills>>

\* A request of any kind, the URL or path left aside.
EffectStart(r) == EffectStartFor(r, CacheKinds, {"u1"})

\* An HttpGet whose URL is chosen apart from its key.
HttpGetStart(r) == EffectStartFor(r, {"http"}, Urls)

\* The I/O succeeds (a 2xx response with its body, the file's bytes, the
\* directory's entries): the entry is inserted or overwritten.
EffectOk(r) ==
    /\ req[r].pc = "io"
    /\ \E payload \in Payloads :
       LET q == req[r]
           ent == [fresh_until |-> FreshUntil(q.started, q.fresh_for), payload |-> payload]
       IN  /\ fills' = [fills EXCEPT ![q.kind][q.key] =
                          IF Fresh(ent, now) THEN @ \cup {ent} ELSE @]
           /\ cache' = [cache EXCEPT ![q.kind][q.key] =
                          Some([fresh_until |-> FreshUntil(q.started, q.fresh_for),
                                payload |-> payload])]
           /\ req' = [req EXCEPT ![r] =
                        [pc |-> "done", kind |-> q.kind, key |-> q.key, url |-> q.url,
                         result |-> "Ok", payload |-> Some(payload), did_io |-> TRUE]]
    /\ UNCHANGED <<procVars, rateVars, now, barVars, nreq>>

\* A failure path that drops the key's entry (not what the code does).
CacheAfterFailurePoisoned(kind, key) == [cache EXCEPT ![kind][key] = NoEntry]

\* What a failed fetch does to the cache: nothing.
CacheAfterFailure(kind, key) == cache

\* The errors of each kind: a non-2xx status or a transport failure for
\* HttpGet, an io::Error for the filesystem.
Failures(kind) == IF kind = "http" THEN {"HttpStatus", "Transport"} ELSE {"Transport"}

\* The I/O fails: the error is returned with `?` before any insert.
EffectFail(r) ==
    /\ req[r].pc = "io"
    /\ \E err \in Failures(req[r].kind) :
          req' = [req EXCEPT ![r] =
                    [pc |-> "done", kind |-> req[r].kind, key |-> req[r].key,
                     url |-> req[r].url, result |-> err, payload |-> <<>>,
                     did_io |-> TRUE]]
    /\ cache' = CacheAfterFailure(req[r].kind, req[r].key)
    /\ UNCHANGED <<procVars, rateVars, now, barVars, nreq, fills>>

\* The caller takes the result.
EffectReturn(r) ==
    /\ req[r].pc = "done"
    /\ req' = [req EXCEPT ![r] = Idle]
    /\ UNCHANGED <<procVars, rateVars, now, barVars, cache, nreq, fills>>

\* A second passes.
CacheClock ==
    /\ now < MaxCacheTime
    /\ now' = now + 1
    /\ fills' = [kind \in CacheKinds |-> [key \in Keys |->
                   {ent \in fills[kind][key] : Fresh(ent, now')}]]
    /\ UNCHANGED <<procVars, rateVars, barVars, cache, req, nreq>>

(***************************************************************************)
(* The effects engine: persistent subprocesses (effects.rs, proc_batch).   *)
(***************************************************************************)
ProcKeys == {"p1", "p2"}
\* max_lines of a ProcBatch request.
BatchSizes == {0, 1, 2}
NoProc == <<>>
NoCall == [pc |-> "idle"]
\* No proc_batch call for the key has returned.
NoAnswer == [kind |-> "None"]

\* A contains_key that never finds the entry (not what the code does).
HasProcNever(key) == FALSE

\* procs.contains_key(&pb.key)
HasProc(key) == procs[key] # NoProc

\* A drain that leaves the lines it returns in the channel (not what
\* try_recv does).
AfterRecvKept(q, n) == q

\* The channel after n successful try_recv calls.
AfterRecv(q, n) == SubSeq(q, n + 1, Len(q))

\* A loop that runs until the channel is empty, whatever max_lines is.
MinUnbounded(a, b) == b

\* for _ in 0..pb.max_lines: the loop takes max_lines lines or, if fewer
\* are queued, all of them.
Min(a, b) == IF a <= b THEN a ELSE b

\* let mut procs = self.procs.lock().await
ProcBatchLock(c) ==
    /\ pcall[c].pc = "idle"
    /\ plock = 0
    /\ plock' = c
    /\ \E key \in ProcKeys, max_lines \in BatchSizes :
          pcall' = [pcall EXCEPT ![c] = [pc |-> "locked", key |-> key, max_lines |-> max_lines]]
    /\ UNCHANGED <<now, barVars, cacheVars, rateVars, procs, children, written, exited, pipe,
                   reader, rx, delivered, batch>>

\* if !procs.contains_key(&pb.key) { spawn the child, spawn the reader task,
\* insert the entry }: the spawn succeeds, or it fails and the call returns
\* the error, which drops the lock guard.
ProcBatchEnsure(c) ==
    /\ pcall[c].pc = "locked"
    /\ plock = c
    /\ LET key == pcall[c].key IN
       IF HasProc(key)
       THEN /\ pcall' = [pcall EXCEPT ![c].pc = "drain"]
            /\ UNCHANGED <<plock, procs, children, written, exited, pipe, reader, rx, batch>>
       ELSE \/ /\ children[key] < MaxSpawns
               /\ children' = [children EXCEPT ![key] = @ + 1]
               /\ procs' = [procs EXCEPT ![key] = Some([child |-> children[key] + 1])]
               /\ written' = [written EXCEPT ![key] = 0]
               /\ exited' = [exited EXCEPT ![key] = FALSE]
               /\ pipe' = [pipe EXCEPT ![key] = <<>>]
               /\ rx' = [rx EXCEPT ![key] = <<>>]
               /\ reader' = [reader EXCEPT ![key] = "running"]
               /\ pcall' = [pcall EXCEPT ![c].pc = "drain"]
               /\ UNCHANGED <<plock, batch>>
            \/ /\ pcall' = [pcall EXCEPT ![c] = NoCall]
               /\ plock' = 0
               /\ batch' = [batch EXCEPT ![key] = [kind |-> "Err", taken |-> <<>>]]
               /\ UNCHANGED <<procs, children, written, exited, pipe, reader, rx>>
    /\ UNCHANGED <<now, barVars, cacheVars, rateVars, delivered>>

\* A try_recv that takes a channel without sender for an empty one.
DisconnectedNever(key, n, max_lines) == FALSE

\* After n lines the loop calls try_recv once more, unless it has max_lines
\* of them; the call answers Disconnected when the channel is empty and the
\* reader task has dropped the sender.
Disconnected(key, n, max_lines) == n < max_lines /\ reader[key] = "ended"

\* The drain loop: up to max_lines try_recv calls.  Empty ends the loop;
\* Disconnected (the channel is empty and the reader task has ended) returns
\* an error instead of the lines taken so far.
ProcBatchDrain(c) ==
    /\ pcall[c].pc = "drain"
    /\ plock = c
    /\ LET key == pcall[c].key
           n == Min(pcall[c].max_lines, Len(rx[key]))
           out == SubSeq(rx[key], 1, n)
           disconnected == Disconnected(key, n, pcall[c].max_lines)
       IN  /\ rx' = [rx EXCEPT ![key] = AfterRecv(@, n)]
           /\ delivered' = [delivered EXCEPT ![key] =
                              IF disconnected \/ out = <<>> THEN @ ELSE Append(@, out)]
           /\ batch' = [batch EXCEPT ![key] =
                           IF disconnected THEN [kind |-> "Err", taken |-> out]
                           ELSE [kind |-> "Ok", taken |-> out, lines |-> out]]
    /\ pcall' = [pcall EXCEPT ![c] = NoCall]
    /\ plock' = 0
    /\ UNCHANGED <<now, barVars, cacheVars, rateVars, procs, children, written, exited, pipe, reader>>

\* The child writes its next line to stdout.
ChildWrites(key) ==
    /\ HasProc(key)
    /\ ~exited[key]
    /\ written[key] < MaxLines
    /\ written' = [written EXCEPT ![key] = @ + 1]
    /\ pipe' = [pipe EXCEPT ![key] = Append(@, written[key] + 1)]
    /\ UNCHANGED <<now, barVars, cacheVars, rateVars, procs, plock, pcall, children, exited,
                   reader, rx, delivered, batch>>

\* The child exits: its end of the pipe closes.
ChildExits(key) ==
    /\ HasProc(key)
    /\ ~exited[key]
    /\ exited' = [exited EXCEPT ![key] = TRUE]
    /\ UNCHANGED <<now, barVars, cacheVars, rateVars, procs, plock, pcall, children, written,
                   pipe, reader, rx, delivered, batch>>

\* The reader task: while let Ok(Some(line)) = lines.next_line().await
\* { tx.send(line) }; at end of file the task ends and drops the sender.
ReaderTask(key) ==
    /\ reader[key] = "running"
    /\ IF pipe[key] # <<>>
       THEN /\ rx' = [rx EXCEPT ![key] = Append(@, Head(pipe[key]))]
            /\ pipe' = [pipe EXCEPT ![key] = Tail(@)]
            /\ UNCHANGED reader
       ELSE /\ exited[key]
            /\ reader' = [reader EXCEPT ![key] = "ended"]
            /\ UNCHANGED <<rx, pipe>>
    /\ UNCHANGED <<now, barVars, cacheVars, rateVars, procs, plock, pcall, children, written,
                   exited, delivered, batch>>

(***************************************************************************)
(* The rate-limited client pool (http.rs) and the send of http_get.        *)
(***************************************************************************)
Hosts == {"a", "b"}
\* The RateLimitSpec a request's policy carries.
RateSpecs == {[per |-> 60, burst |-> 1], [per |-> 60, burst |-> 2]}
NoClient == <<>>
NoRequest == [pc |-> "idle"]

\* ThrottleBehavior::Error in place of Delay (not what the code asks for).
OnLimitError == "Error"

\* r.limit(spec.burst, spec.per).on_limit(ThrottleBehavior::Delay)
OnLimit == "Delay"

\* client_for_host: the client memoised under the host string, or a new one
\* built with the caller's spec.
ClientForHost(host, spec) ==
    IF clients[host] # NoClient THEN clients[host] ELSE Some(spec)

\* The limiter a request to `host` passes: that of the host's own client,
\* whose middleware is built for that host only.
LimiterOf(host) == host

\* The token bucket of a limiter holds at most `burst` tokens; a request that
\* is sent takes one.
BucketFull(host) == clients[host][1].burst
TakeToken(host) == [tokens EXCEPT ![LimiterOf(host)] = @ - 1]

\* A pool without its mutex: a caller enters whoever is inside.
PoolFreeUnlocked(r) == TRUE

\* self.inner.lock(): the std Mutex of the pool is taken by no other caller.
PoolFree(r) == \A o \in Callers \ {r} : hreq[o].pc # "pool"

\* http_get past the cache (the lookup found no fresh entry; how long ago
\* an entry was written is not followed here) calls client_for_host, which
\* takes the mutex of the pool and looks the host up: `client` is what the
\* call will return, the client found or else one built with the caller's
\* spec.  The policy of the weather unit gives cache_fresh_for the same
\* duration as the limiter's period.
HttpLock(r) ==
    /\ hreq[r].pc = "idle"
    /\ PoolFree(r)
    /\ \E host \in Hosts, spec \in RateSpecs, key \in Keys :
          hreq' = [hreq EXCEPT ![r] =
                     [pc |-> "pool", host |-> host, waited |-> 0, key |-> key,
                      spec |-> spec, built |-> clients[host] = NoClient,
                      client |-> ClientForHost(host, spec)]]
    /\ UNCHANGED <<now, barVars, cacheVars, procVars, clients, tokens>>

\* The rest of client_for_host and the send: a client that had to be built
\* (which may fail) is inserted under the host, the mutex is released and
\* the request is handed to the client.  With a token in the bucket the
\* request is sent at once; without one the limiter's ThrottleBehavior
\* decides.
HttpIssue(r) ==
    /\ hreq[r].pc = "pool"
    /\ LET q == hreq[r]
           after(to) == [pc |-> to, host |-> q.host, waited |-> 0, key |-> q.key,
                         fresh_for |-> q.spec.per]
       IN  \/ /\ q.built
              /\ hreq' = [hreq EXCEPT ![r] = after("failed")]
              /\ UNCHANGED <<clients, tokens>>
           \/ LET bucket == IF q.built
                            THEN [tokens EXCEPT ![LimiterOf(q.host)] = q.client[1].burst]
                            ELSE tokens
              IN  /\ clients' = IF q.built
                                THEN [clients EXCEPT ![q.host] = q.client]
                                ELSE clients
                  /\ IF bucket[LimiterOf(q.host)] > 0
                     THEN /\ tokens' = [bucket EXCEPT ![LimiterOf(q.host)] = @ - 1]
                          /\ hreq' = [hreq EXCEPT ![r] = after("sent")]
                     ELSE /\ tokens' = bucket
                          /\ hreq' = [hreq EXCEPT ![r] =
                                        after(IF OnLimit = "Delay" THEN "waiting"
                                              ELSE "rejected")]
    /\ UNCHANGED <<now, barVars, cacheVars, procVars>>

\* A delayed request is sent as soon as the bucket has a token for it.
HttpSend(r) ==
    /\ hreq[r].pc = "waiting"
    /\ tokens[LimiterOf(hreq[r].host)] > 0
    /\ tokens' = TakeToken(hreq[r].host)
    /\ hreq' = [hreq EXCEPT ![r].pc = "sent"]
    /\ UNCHANGED <<now, barVars, cacheVars, procVars, clients>>

\* A request that runs on a task of its own: the response is cached even
\* when the poll that asked for it is gone.
CacheAfterResponseDetached(r, payload) ==
    [cache EXCEPT !["http"][hreq[r].key] =
        Some([fresh_until |-> FreshUntil(now, hreq[r].fresh_for), payload |-> payload])]

\* st.cache.insert(get.key, ..), reached by the future of http_get once the
\* request it sent is answered; a future that was dropped reaches nothing.
CacheAfterResponse(r, payload) ==
    IF hreq[r].pc = "sent"
    THEN [cache EXCEPT !["http"][hreq[r].key] =
             Some([fresh_until |-> FreshUntil(now, hreq[r].fresh_for),
                   payload |-> payload])]
    ELSE cache

\* The response, or the error, reaches the caller: a 2xx response is cached
\* on the way, an error (a non-2xx status, a transport failure) is not.
HttpDone(r) ==
    /\ hreq[r].pc \in {"sent", "failed", "rejected", "abandoned"}
    /\ hreq' = [hreq EXCEPT ![r] = NoRequest]
    /\ \/ \E payload \in Payloads : cache' = CacheAfterResponse(r, payload)
       \/ cache' = cache
    /\ UNCHANGED <<now, barVars, req, nreq, fills, procVars, clients, tokens>>

\* The bucket of a host's limiter regains a token.
Replenish(host) ==
    /\ clients[host] # NoClient
    /\ tokens[LimiterOf(host)] < BucketFull(host)
    /\ tokens' = [tokens EXCEPT ![LimiterOf(host)] = @ + 1]
    /\ UNCHANGED <<now, barVars, cacheVars, procVars, clients, hreq>>

\* The poll that issued the request reaches its timeout while the request
\* is still delayed: the poll future, and with it the request, is dropped;
\* the poll arm goes on with Err(PollError::Transport(Timeout)) and
\* publishes the view rendered from it.
PollAbandons(r) ==
    /\ hreq[r].pc = "waiting"
    /\ hreq[r].waited = PollTimeout
    /\ hreq' = [hreq EXCEPT ![r] =
                  [pc |-> "abandoned", host |-> @.host, waited |-> @.waited,
                   key |-> @.key, fresh_for |-> @.fresh_for,
                   outcome |-> "Timeout",
                   view |-> render_availability([kind |-> "Failed", err |-> "Timeout"])]]
    /\ UNCHANGED <<now, barVars, cacheVars, procVars, clients, tokens>>

\* A second passes for the delayed requests; none of them could be sent and
\* none has reached the poll timeout.
RateClock ==
    /\ \E r \in Callers : hreq[r].pc = "waiting"
    /\ \A r \in Callers :
          hreq[r].pc = "waiting" =>
             /\ tokens[LimiterOf(hreq[r].host)] = 0
             /\ hreq[r].waited < PollTimeout
    /\ hreq' = [r \in Callers |->
                  IF hreq[r].pc = "waiting"
                  THEN [hreq[r] EXCEPT !.waited = @ + 1]
                  ELSE hreq[r]]
    /\ UNCHANGED <<now, barVars, cacheVars, procVars, clients, tokens>>

(***************************************************************************)
(* The responses of the engine (effects.rs, EffectOut::expect).            *)
(***************************************************************************)
\* The variants of EffectOut.
OutVariants == {"Http", "ProcLines", "FsBytes", "DirEntries"}
\* The types that implement EffectOutExpect.
ExpectTypes == {"HttpResponse", "Vec<String>", "Bytes", "DirEntries"}
NoExtract == [pc |-> "idle"]

\* An extraction that unwraps: a mismatch panics.
expect_from_unwrap(T, out) ==
    CASE T = "HttpResponse" /\ out.variant = "Http"     -> [kind |-> "Ok", value |-> out.payload]
      [] T = "Vec<String>" /\ out.variant = "ProcLines" -> [kind |-> "Ok", value |-> out.payload]
      [] T = "Bytes" /\ out.variant = "FsBytes"         -> [kind |-> "Ok", value |-> out.payload]
      [] T = "DirEntries" /\ out.variant = "DirEntries" -> [kind |-> "Ok", value |-> out.payload]
      [] OTHER -> [kind |-> "Panic", value |-> "unexpected effect output"]

\* T::expect_from(out): the match of each of the four implementations.
expect_from(T, out) ==
    CASE T = "HttpResponse" ->
            IF out.variant = "Http" THEN [kind |-> "Ok", value |-> out.payload]
            ELSE [kind |-> "Err", value |-> "unexpected effect output"]
      [] T = "Vec<String>" ->
            IF out.variant = "ProcLines" THEN [kind |-> "Ok", value |-> out.payload]
            ELSE [kind |-> "Err", value |-> "unexpected effect output"]
      [] T = "Bytes" ->
            IF out.variant = "FsBytes" THEN [kind |-> "Ok", value |-> out.payload]
            ELSE [kind |-> "Err", value |-> "unexpected effect output"]
      [] T = "DirEntries" ->
            IF out.variant = "DirEntries" THEN [kind |-> "Ok", value |-> out.payload]
            ELSE [kind |-> "Err", value |-> "unexpected effect output"]

\* A caller holds a response of the engine and names the type it wants.
ExpectCall(r) ==
    /\ extract[r].pc = "idle"
    /\ \E T \in ExpectTypes, variant \in OutVariants, payload \in Payloads :
          extract' = [extract EXCEPT ![r] =
                         [pc |-> "called", want |-> T,
                          out |-> [variant |-> variant, payload |-> payload]]]
    /\ UNCHANGED <<now, effVars, machines, unitVars, renderVars, lockVars, lineVars, ctorVars, readerVars, hostVars, ghost,
                   actorVars, chan, aggVars>>

\* out.expect::<T>()
ExpectReturn(r) ==
    /\ extract[r].pc = "called"
    /\ extract' = [extract EXCEPT ![r] =
                      [pc |-> "done", want |-> @.want, out |-> @.out,
                       result |-> expect_from(@.want, @.out)]]
    /\ UNCHANGED <<now, effVars, machines, unitVars, renderVars, lockVars, lineVars, ctorVars, readerVars, hostVars, ghost,
                   actorVars, chan, aggVars>>

(***************************************************************************)
(* The Disk machine (machine/units/disk.rs) under the actor's poll         *)
(* timeout.  Names are sequences of characters.                            *)
(***************************************************************************)
\* The block device the partition label resolves to, and the entries that
\* /sys/block may list.
DiskName == <<"s", "d", "a", "1">>
DirNames == {<<"s", "d", "a">>, <<"s", "d", "b">>}

\* disk_name.starts_with(name)
StartsWith(name, prefix) ==
    /\ Len(prefix) <= Len(name)
    /\ SubSeq(name, 1, Len(prefix)) = prefix

\* Disk::from_cfg: the name is known at once unless the configuration
\* selects the disk by partition label or uuid.
DiskFromCfg(partlabel) ==
    [partlabel |-> partlabel,
     name |-> IF partlabel THEN <<>> ELSE <<DiskName>>,
     root |-> <<>>,
     initialized |-> FALSE]

\* Disk::set_disk_name
set_disk_name(d, name) ==
    IF d.name = <<>> THEN [d EXCEPT !.name = <<name>>] ELSE d

\* Disk::select_root: the longest entry the disk name starts with.
select_root(d, entries) ==
    IF d.root # <<>> \/ d.name = <<>> THEN d
    ELSE LET fit == {e \in entries : StartsWith(d.name[1], e)}
         IN  IF fit = {} THEN d
             ELSE [d EXCEPT !.root =
                      <<CHOOSE e \in fit : \A f \in fit : Len(f) <= Len(e)>>]

\* Disk::read_markup_from_bytes: the first reading of a named disk
\* initializes the counters.
read_markup_from_bytes(d) ==
    IF d.name = <<>> THEN d ELSE [d EXCEPT !.initialized = TRUE]

\* No poll is in flight and none has ended.
NoPoll == [pos |-> "none", elapsed |-> 0, out |-> "None"]

diskFrame == <<now, effVars, machines, renderVars, lockVars, lineVars,
               ctorVars, readerVars, outVars, hostVars,
               ghost, actorVars, chan, aggVars>>

\* tokio::time::timeout(poll_timeout, machine.poll(&mut state)): the poll
\* starts on the actor's State; `before` remembers that State.
DiskPoll ==
    /\ dpoll.pos = "none"
    /\ dpoll' = [pos |-> IF disk.name = <<>> THEN "resolve" ELSE "list",
                 elapsed |-> 0, out |-> "None", before |-> disk]
    /\ UNCHANGED <<disk, diskFrame>>

\* resolve_disk_name(..).await returns and the name found is stored.
DiskResolved ==
    /\ dpoll.pos = "resolve"
    /\ \E found \in BOOLEAN :
          disk' = IF found THEN set_disk_name(disk, DiskName) ELSE disk
    /\ dpoll' = [dpoll EXCEPT !.pos = "list"]
    /\ UNCHANGED diskFrame

\* The FsListDir of /sys/block returns: the root is selected; the poll goes
\* on to the sector size, to the stat file, or returns "resolving".
DiskListed ==
    /\ dpoll.pos = "list"
    /\ \E entries \in SUBSET DirNames :
          /\ disk' = select_root(disk, entries)
          /\ dpoll' = IF disk'.root # <<>> THEN [dpoll EXCEPT !.pos = "sector"]
                      ELSE IF disk'.name # <<>> THEN [dpoll EXCEPT !.pos = "stat"]
                      ELSE [dpoll EXCEPT !.pos = "none", !.out = "Ready"]
    /\ UNCHANGED diskFrame

\* The FsRead of hw_sector_size returns.
DiskSector ==
    /\ dpoll.pos = "sector"
    /\ dpoll' = [dpoll EXCEPT !.pos = "stat"]
    /\ UNCHANGED <<disk, diskFrame>>

\* The FsRead of the stat file returns and the poll returns its markup.
DiskStat ==
    /\ dpoll.pos = "stat"
    /\ disk' = read_markup_from_bytes(disk)
    /\ dpoll' = [dpoll EXCEPT !.pos = "none", !.out = "Ready"]
    /\ UNCHANGED diskFrame

\* An effect of the poll fails: `?` returns the transport error.
DiskFailed ==
    /\ dpoll.pos \in {"list", "sector", "stat"}
    /\ dpoll' = [dpoll EXCEPT !.pos = "none", !.out = "Transport"]
    /\ UNCHANGED <<disk, diskFrame>>

\* A second passes while the poll waits for an effect.
DiskWait ==
    /\ dpoll.pos # "none"
    /\ dpoll.elapsed < PollTimeout
    /\ dpoll' = [dpoll EXCEPT !.elapsed = @ + 1]
    /\ UNCHANGED <<disk, diskFrame>>

\* The timeout fires: the future of the poll is dropped where it waits and
\* the actor goes on with the State the poll has worked on.
DiskTimeout ==
    /\ dpoll.pos # "none"
    /\ dpoll.elapsed = PollTimeout
    /\ dpoll' = [dpoll EXCEPT !.pos = "none", !.out = "Timeout"]
    /\ UNCHANGED <<disk, diskFrame>>

(***************************************************************************)
(* Rendering a unit error (render_poll_error, the arm PollError::Unit).    *)
(* A message is a sequence of characters; a character takes one byte in    *)
(* UTF-8, or two.                                                          *)
(***************************************************************************)
\* s.truncate(80)
TruncateAt == 80

Chars == {"4", "2", "9", "e'"}
\* char::len_utf8
len_utf8(c) == IF c = "e'" THEN 2 ELSE 1

\* The messages a unit may answer: a padding of ASCII characters, then up to
\* MaxTail characters.
RECURSIVE Padding(_)
Padding(n) == IF n = 0 THEN <<>> ELSE Append(Padding(n - 1), "x")
PaddingLens == {0} \cup ((TruncateAt - MaxTail)..TruncateAt)
Messages ==
    {Padding(n) \o t : n \in PaddingLens,
                       t \in UNION {[1..k -> Chars] : k \in 0..MaxTail}}

\* String::len: the length in bytes.
RECURSIVE ByteLen(_)
ByteLen(s) == IF s = <<>> THEN 0 ELSE len_utf8(Head(s)) + ByteLen(Tail(s))

\* str::is_char_boundary(n): n bytes are a whole number of characters.
is_char_boundary(s, n) == \E k \in 0..Len(s) : ByteLen(SubSeq(s, 1, k)) = n

\* msg.contains("429")
contains_429(s) ==
    \E i \in 1..(Len(s) - 2) : s[i] = "4" /\ s[i + 1] = "2" /\ s[i + 2] = "9"

\* String::truncate(new_len): no effect beyond the length; panics when
\* new_len is not on a character boundary.
truncate(s, new_len) ==
    IF new_len > ByteLen(s) THEN [kind |-> "Ok", value |-> s]
    ELSE IF ~is_char_boundary(s, new_len) THEN [kind |-> "Panic"]
    ELSE [kind |-> "Ok",
          value |-> SubSeq(s, 1, CHOOSE k \in 0..Len(s) :
                                     ByteLen(SubSeq(s, 1, k)) = new_len)]

\* render_poll_error for PollError::Unit(e) with e.to_string() = msg
render_unit_error(msg) ==
    IF contains_429(msg)
    THEN [kind |-> "View", body |-> <<"HTTP 429">>, health |-> "Error"]
    ELSE LET short == truncate(msg, TruncateAt)
         IN  IF short.kind = "Panic" THEN [kind |-> "Panic"]
             ELSE [kind |-> "View", body |-> short.value, health |-> "Error"]

\* UnitMachine::render_unit_error, the provided method of the trait:
\* Markup::text(err.to_string())
render_unit_error_default(msg) == [kind |-> "Markup", body |-> msg]

\* WeatherMachine::fmt_err, which WeatherMachine::render_unit_error calls.
fmt_err(msg) ==
    IF contains_429(msg) THEN [kind |-> "Markup", body |-> <<"HTTP 429">>]
    ELSE LET short == truncate(msg, TruncateAt)
         IN  IF short.kind = "Panic" THEN [kind |-> "Panic"]
             ELSE [kind |-> "Markup", body |-> short.value]

\* machine.render_unit_error(&err) of the machine with the given name.
UnitHook(machine, msg) ==
    IF machine = "Weather" THEN fmt_err(msg) ELSE render_unit_error_default(msg)

\* Nothing was rendered.
NoView == [kind |-> "None"]

renderFrame == <<now, effVars, machines, unitVars, lockVars, lineVars, ctorVars, readerVars, outVars,
                 hostVars, ghost, actorVars, chan, aggVars>>

\* The poll arm: machine.poll returns Ok(Err(e)).
UnitFails ==
    /\ shown.kind # "Panic"
    /\ failed = <<>>
    /\ \E msg \in Messages : failed' = <<msg>>
    /\ shown' = NoView
    /\ UNCHANGED renderFrame

\* The poll arm goes on: render_availability(name, Failed(Unit(e))) and
\* view_tx.send(view); the loop takes its next turn.  A panic ends the task.
RenderFailed ==
    /\ failed # <<>>
    /\ shown' = render_unit_error(failed[1])
    /\ failed' = IF shown'.kind = "Panic" THEN failed ELSE <<>>
    /\ UNCHANGED renderFrame

(***************************************************************************)
(* The effects engine: the mutexes of the caches (effects.rs).  Each of    *)
(* http_get, fs_read and fs_list_dir locks the mutex of its own map for    *)
(* the lookup, performs the I/O, and locks it again for the insert.        *)
(***************************************************************************)
FetchKeys == {"k1", "k2"}
NoFetch == [pc |-> "idle"]

\* A lookup whose guard lives to the end of the function.
GuardKept(kind) == guard

\* The block of the lookup ends: the guard is dropped.
GuardDropped(kind) == [guard EXCEPT ![kind] = 0]

\* A caller is in no call of the engine.
Resting(r) == fetch[r] = NoFetch /\ pcall[r] = NoCall

lockFrame == <<now, effVars, machines, unitVars, renderVars, lineVars, ctorVars, readerVars,
               outVars, hostVars, ghost, actorVars, chan, aggVars>>

\* let cache = self.<kind>.lock().await
FetchLock(r, kind, key) ==
    /\ Resting(r)
    /\ guard[kind] = 0
    /\ guard' = [guard EXCEPT ![kind] = r]
    /\ fetch' = [fetch EXCEPT ![r] = [pc |-> "lookup", kind |-> kind, key |-> key]]
    /\ UNCHANGED <<cached, lockFrame>>

\* The lookup: a fresh entry is returned from inside the block; else the
\* block ends and the I/O starts.
FetchLookup(r) ==
    /\ fetch[r].pc = "lookup"
    /\ IF fetch[r].key \in cached[fetch[r].kind]
       THEN /\ fetch' = [fetch EXCEPT ![r] = NoFetch]
            /\ guard' = [guard EXCEPT ![fetch[r].kind] = 0]
       ELSE /\ fetch' = [fetch EXCEPT ![r].pc = "io"]
            /\ guard' = GuardDropped(fetch[r].kind)
    /\ UNCHANGED <<cached, lockFrame>>

\* The I/O fails: the error is returned.
FetchFailed(r) ==
    /\ fetch[r].pc = "io"
    /\ fetch' = [fetch EXCEPT ![r] = NoFetch]
    /\ UNCHANGED <<guard, cached, lockFrame>>

\* The I/O has answered: let mut cache = self.<kind>.lock().await
FetchRelock(r) ==
    /\ fetch[r].pc = "io"
    /\ guard[fetch[r].kind] = 0
    /\ guard' = [guard EXCEPT ![fetch[r].kind] = r]
    /\ fetch' = [fetch EXCEPT ![r].pc = "insert"]
    /\ UNCHANGED <<cached, lockFrame>>

\* cache.insert(key, entry); the function returns and the guard is dropped.
FetchInsert(r) ==
    /\ fetch[r].pc = "insert"
    /\ cached' = [cached EXCEPT ![fetch[r].kind] = @ \cup {fetch[r].key}]
    /\ guard' = [guard EXCEPT ![fetch[r].kind] = 0]
    /\ fetch' = [fetch EXCEPT ![r] = NoFetch]
    /\ UNCHANGED lockFrame

\* An entry is no longer fresh.
FetchStale(kind, key) ==
    /\ key \in cached[kind]
    /\ cached' = [cached EXCEPT ![kind] = @ \ {key}]
    /\ UNCHANGED <<guard, fetch, lockFrame>>

\* proc_batch, called by a caller that is in no other call.
FetchProcBatch(c) ==
    /\ fetch[c] = NoFetch
    /\ \/ ProcBatchLock(c)
       \/ ProcBatchEnsure(c)
       \/ ProcBatchDrain(c)

(***************************************************************************)
(* The text of a status line (run_empty_status_machines, line assembly).   *)
(* A String is a sequence of tokens; the empty String is <<>>.             *)
(***************************************************************************)
\* The chunks of a snapshot: some cannot be serialized.
ChunkTexts == {"a", "b"}
Chunks == [full_text : ChunkTexts, serializable : BOOLEAN]
Snapshots == UNION {[1..n -> Chunks] : n \in 0..MaxUnits}

\* serde_json::to_string(chunk).unwrap_or_default(), pushed to the vector:
\* the JSON object as one token, or the empty String when it fails.
to_string_or_default(chunk) ==
    IF chunk.serializable THEN <<<<chunk.full_text>>>> ELSE << <<>> >>

\* The vector `chunks` after the loop over the handles.
RECURSIVE ChunkStrings(_)
ChunkStrings(s) ==
    IF s = <<>> THEN <<>>
    ELSE to_string_or_default(Head(s)) \o ChunkStrings(Tail(s))

\* chunks.join(",")
RECURSIVE join(_)
join(strings) ==
    IF strings = <<>> THEN <<>>
    ELSE IF Len(strings) = 1 THEN strings[1]
    ELSE strings[1] \o <<",">> \o join(Tail(strings))

\* format!("[{}],\n", chunks.join(","))
FormatLine(s) == <<"[">> \o join(ChunkStrings(s)) \o <<"]", ",", "\n">>

lineFrame == <<now, effVars, machines, unitVars, renderVars, lockVars, ctorVars,
               readerVars, outVars, hostVars, ghost, actorVars, chan, aggVars>>

\* The tick has refreshed `latest`: these are its chunks in display order.
LineSnapshot ==
    /\ \E s \in Snapshots : snap' = s
    /\ outline' = <<>>
    /\ outline # <<>> \/ snap = <<>>
    /\ UNCHANGED lineFrame

\* The line is assembled and written.
LineWrite ==
    /\ outline = <<>>
    /\ outline' = <<FormatLine(snap)>>
    /\ UNCHANGED <<snap, lineFrame>>

(***************************************************************************)
(* The system.                                                             *)
(***************************************************************************)
\* No line is being assembled.
NoLine ==
    /\ snap = <<>>
    /\ outline = <<>>

\* EffectEngine::new(): every mutex is free and no call is in progress.
NoFetches ==
    /\ guard = [kind \in CacheKinds |-> 0]
    /\ fetch = [r \in Callers |-> NoFetch]
    /\ cached = [kind \in CacheKinds |-> {}]

\* No poll has failed.
NoFailure ==
    /\ failed = <<>>
    /\ shown = NoView

\* DiskMachine::init has run for a disk named in the configuration and no
\* poll was invoked.
DiskInit ==
    /\ disk = DiskFromCfg(FALSE)
    /\ dpoll = NoPoll

\* EffectEngine::new(): empty caches, no request in flight.
EngineNew ==
    /\ cache = [kind \in CacheKinds |-> [key \in Keys |-> NoEntry]]
    /\ req = [r \in Callers |-> Idle]
    /\ nreq = 0
    /\ fills = [kind \in CacheKinds |-> [key \in Keys |-> {}]]
    /\ procs = [key \in ProcKeys |-> NoProc]
    /\ plock = 0
    /\ pcall = [c \in Callers |-> NoCall]
    /\ children = [key \in ProcKeys |-> 0]
    /\ written = [key \in ProcKeys |-> 0]
    /\ exited = [key \in ProcKeys |-> FALSE]
    /\ pipe = [key \in ProcKeys |-> <<>>]
    /\ reader = [key \in ProcKeys |-> "none"]
    /\ rx = [key \in ProcKeys |-> <<>>]
    /\ delivered = [key \in ProcKeys |-> <<>>]
    /\ batch = [key \in ProcKeys |-> NoAnswer]
    /\ clients = [host \in Hosts |-> NoClient]
    /\ tokens = [host \in Hosts |-> 0]
    /\ hreq = [r \in Callers |-> NoRequest]
    /\ extract = [r \in Callers |-> NoExtract]

\* Nothing was handed to Status::new.
NoStatus ==
    /\ units = <<>>
    /\ status = "None"
    /\ tasks = 0

\* Standard input carries no raw line.
NoInput ==
    /\ input = <<>>
    /\ read = <<>>

\* Every actor is spawned and none has taken a step: each holds its initial
\* view, its first poll is due at once and both intervals have ticked once.
SpawnedWith(views) ==
    /\ now = 0
    /\ pc = [u \in Units |-> "select"]
    /\ next_poll = [u \in Units |-> 0]
    /\ poll_start = [u \in Units |-> 0]
    /\ tick_at = [u \in Units |-> TickInterval]
    /\ poll_tick_at = [u \in Units |-> PollInterval(u)]
    /\ pending_click = [u \in Units |-> <<>>]
    /\ recv_off = [u \in Units |-> FALSE]
    /\ view \in [Units -> views]
    /\ changed = [u \in Units |-> FALSE]
    /\ clicked = [u \in Units |-> <<>>]
    /\ poll_due = [u \in Units |-> Never]
    /\ chan = <<>>
    /\ cursor = [u \in Units |-> 0]
    /\ inpoll = [u \in Units |-> 0]
    /\ superseded = [u \in Units |-> {}]
    /\ polled = [u \in Units |-> "None"]
    /\ decided = [u \in Units |-> "None"]

Spawned == SpawnedWith(InitViews)

\* Every actor is spawned and its task has run up to its loop, whatever
\* the decision of machine.init(): `decided` holds that decision until a
\* poll arm ends.
Spawning ==
    /\ now = 0
    /\ pc = [u \in Units |-> "select"]
    /\ decided \in [Units -> {"None", "Idle", "PollNow"}]
    /\ \A u \in Units :
          decided[u] \in (IF Configured(u) THEN InitDecisions(u) ELSE {"None"})
    /\ next_poll = [u \in Units |-> FirstPoll(u, decided[u])]
    /\ poll_start = [u \in Units |-> 0]
    /\ tick_at = [u \in Units |-> TickInterval]
    /\ poll_tick_at = [u \in Units |-> PollInterval(u)]
    /\ pending_click = [u \in Units |-> <<>>]
    /\ recv_off = [u \in Units |-> FALSE]
    /\ view \in [Units -> InitViews]
    /\ changed = [u \in Units |-> FALSE]
    /\ clicked = [u \in Units |-> <<>>]
    /\ poll_due = [u \in Units |-> Never]
    /\ chan = <<>>
    /\ cursor = [u \in Units |-> 0]
    /\ inpoll = [u \in Units |-> 0]
    /\ superseded = [u \in Units |-> {}]
    /\ polled = [u \in Units |-> "None"]
    /\ header = TRUE
    /\ apc = "loop"
    /\ latest = [u \in Units |-> make_chunk(u, view[u])]
    /\ agg_at = 0
    /\ line = LineOf(latest)
    /\ nlines = 1

\* The state once every actor is spawned and the first line is written.
Started ==
    /\ Spawned
    /\ header = TRUE
    /\ apc = "loop"
    /\ latest = [u \in Units |-> make_chunk(u, view[u])]
    /\ agg_at = 0
    /\ line = LineOf(latest)
    /\ nlines = 1

Actor(u) ==
    \/ TickArm(u)
    \/ PollTickArm(u)
    \/ ClickArm(u)
    \/ PollArm(u)
    \/ PollReturns(u)
    \/ PollTimesOut(u)

Next ==
    \/ \E u \in Units : Actor(u)
    \/ ReadClick
    \/ AggregatorTick
    \/ Advance

\* One unit, whose machine is any implementation of the trait; the host
\* clicks on it and on a block that is not this unit.
Init ==
    /\ EngineNew
    /\ DiskInit
    /\ NoFailure
    /\ NoFetches
    /\ NoLine
    /\ machines = <<"Machine">>
    /\ stdin \in [1..MaxClicks -> {I3Name(u) : u \in Units}]
    /\ Started
    /\ NoStatus
    /\ NoInput

Spec == Init /\ [][Next]_vars

\* One unit, whose machine is any implementation of the trait, and a host
\* that clicks on it once.
InitRetry ==
    /\ EngineNew
    /\ DiskInit
    /\ NoFailure
    /\ NoFetches
    /\ NoLine
    /\ machines = <<"Machine">>
    /\ stdin = <<I3Name(0)>>
    /\ Started
    /\ NoStatus
    /\ NoInput

\* The tokio runtime runs every task that is ready and its timers fire: a
\* step that stays possible is taken.
SpecRetry == InitRetry /\ [][Next]_vars /\ WF_vars(Next)

\* One unit, whose machine is any implementation of the trait and whose
\* init answers either decision, from the moment its actor enters its loop.
InitSpawn ==
    /\ EngineNew
    /\ DiskInit
    /\ NoFailure
    /\ NoFetches
    /\ NoLine
    /\ machines = <<"Machine">>
    /\ stdin = <<I3Name(0)>>
    /\ Spawning
    /\ NoStatus
    /\ NoInput

SpecSpawn == InitSpawn /\ [][Next]_vars

\* A bar of two units of machine/units: a weather unit and a clock.
InitBar ==
    /\ EngineNew
    /\ DiskInit
    /\ NoFailure
    /\ NoFetches
    /\ NoLine
    /\ machines = <<"Weather", "Time">>
    /\ stdin \in [1..BarClicks -> {I3Name(u) : u \in Units}]
    /\ Started
    /\ NoStatus
    /\ NoInput

SpecBar == InitBar /\ [][Next]_vars

\* A weather unit, and a host that clicks on it once and then many times
\* on another block.
InitBurst ==
    /\ EngineNew
    /\ DiskInit
    /\ NoFailure
    /\ NoFetches
    /\ NoLine
    /\ machines = <<"Weather">>
    /\ stdin = <<I3Name(0)>> \o [i \in 1..BurstClicks |-> I3Name(1)]
    /\ Started
    /\ NoStatus
    /\ NoInput

SpecBurst == InitBurst /\ [][Next]_vars

\* The effects engine alone: two callers issue requests of the three cached
\* kinds while the clock runs.
NoBar ==
    /\ machines = <<>>
    /\ DiskInit
    /\ NoFailure
    /\ NoFetches
    /\ NoLine
    /\ stdin = <<>>
    /\ Started
    /\ NoStatus
    /\ NoInput

InitCache == EngineNew /\ NoBar

NextCache ==
    \/ \E r \in Callers : EffectStart(r)
    \/ \E r \in Callers : EffectOk(r)
    \/ \E r \in Callers : EffectFail(r)
    \/ \E r \in Callers : EffectReturn(r)
    \/ CacheClock

SpecCache == InitCache /\ [][NextCache]_vars

\* The HTTP cache alone: two callers issue HttpGets whose URL and freshness
\* duration are chosen apart from the key.
InitKey == EngineNew /\ NoBar

NextKey ==
    \/ \E r \in Callers : HttpGetStart(r)
    \/ \E r \in Callers : EffectOk(r)
    \/ \E r \in Callers : EffectFail(r)
    \/ \E r \in Callers : EffectReturn(r)
    \/ CacheClock

SpecKey == InitKey /\ [][NextKey]_vars

\* The effects engine alone: two callers issue ProcBatch requests while the
\* children write, the reader tasks forward and the children exit.
InitProc == EngineNew /\ NoBar

NextProc ==
    \/ \E c \in Callers : ProcBatchLock(c)
    \/ \E c \in Callers : ProcBatchEnsure(c)
    \/ \E c \in Callers : ProcBatchDrain(c)
    \/ \E key \in ProcKeys : ChildWrites(key)
    \/ \E key \in ProcKeys : ChildExits(key)
    \/ \E key \in ProcKeys : ReaderTask(key)

SpecProc == InitProc /\ [][NextProc]_vars

\* The client pool alone: two callers send HTTP requests to two hosts while
\* the buckets regain tokens and the polls behind the requests time out.
InitRate == EngineNew /\ NoBar

NextRate ==
    \/ \E r \in Callers : HttpLock(r)
    \/ \E r \in Callers : HttpIssue(r)
    \/ \E r \in Callers : HttpSend(r)
    \/ \E r \in Callers : HttpDone(r)
    \/ \E r \in Callers : PollAbandons(r)
    \/ \E host \in Hosts : Replenish(host)
    \/ RateClock

SpecRate == InitRate /\ [][NextRate]_vars

\* Nothing was written to standard output and no snapshot was taken.
Silent ==
    /\ header = FALSE
    /\ apc = "header"
    /\ latest = <<>>
    /\ agg_at = 0
    /\ line = <<>>
    /\ nlines = 0

\* A weather unit and a clock from the moment the actors are spawned: the
\* aggregator has yet to write the header, and the host clicks once on the
\* weather unit.
InitStart ==
    /\ EngineNew
    /\ DiskInit
    /\ NoFailure
    /\ NoFetches
    /\ NoLine
    /\ machines = <<"Weather", "Time">>
    /\ stdin = <<I3Name(0)>>
    /\ Spawned
    /\ Silent
    /\ NoStatus
    /\ NoInput

NextStart ==
    \/ AggHeader
    \/ AggInitialLine
    \/ Next

SpecStart == InitStart /\ [][NextStart]_vars

\* A weather unit whose configured latitude is out of range, from the moment
\* its actor is spawned; the host clicks on it once.
InitBad ==
    /\ EngineNew
    /\ DiskInit
    /\ NoFailure
    /\ NoFetches
    /\ NoLine
    /\ machines = <<"Weather">>
    /\ stdin = <<I3Name(0)>>
    /\ SpawnedWith(InitViewsInvalid)
    /\ Silent
    /\ NoStatus
    /\ NoInput

SpecBad == InitBad /\ [][NextStart]_vars

\* The click reader alone: standard input carries any lines the host may
\* write, at most MaxInput of them.
InitReader ==
    /\ EngineNew
    /\ DiskInit
    /\ NoFailure
    /\ NoFetches
    /\ NoLine
    /\ machines = <<>>
    /\ stdin = <<>>
    /\ Started
    /\ NoStatus
    /\ input \in UNION {[1..n -> RawLines] : n \in 0..MaxInput}
    /\ read = <<>>

NextReader ==
    \/ ReaderSkip
    \/ ReaderLine

SpecReader == InitReader /\ [][NextReader]_vars

\* The responses of the engine alone: two callers each extract a payload of
\* any type from a response of any variant.
InitExpect == EngineNew /\ NoBar

NextExpect ==
    \/ \E r \in Callers : ExpectCall(r)
    \/ \E r \in Callers : ExpectReturn(r)

SpecExpect == InitExpect /\ [][NextExpect]_vars

\* The Disk machine alone, configured by name or by partition label: its
\* polls under the actor's timeout, one after the other.
InitDisk ==
    /\ EngineNew
    /\ machines = <<>>
    /\ stdin = <<>>
    /\ Started
    /\ NoStatus
    /\ NoInput
    /\ disk \in {DiskFromCfg(partlabel) : partlabel \in BOOLEAN}
    /\ dpoll = NoPoll
    /\ NoFailure
    /\ NoFetches
    /\ NoLine

NextDisk ==
    \/ DiskPoll
    \/ DiskResolved
    \/ DiskListed
    \/ DiskSector
    \/ DiskStat
    \/ DiskFailed
    \/ DiskWait
    \/ DiskTimeout

SpecDisk == InitDisk /\ [][NextDisk]_vars

\* The rendering of unit errors alone: polls fail with any message, one
\* after the other.
InitRender == EngineNew /\ NoBar

NextRender ==
    \/ UnitFails
    \/ RenderFailed

SpecRender == InitRender /\ [][NextRender]_vars

\* The mutexes of the engine alone: two callers issue requests of every
\* kind for two keys.
InitLock == EngineNew /\ NoBar

NextLock ==
    \/ \E r \in Callers, kind \in CacheKinds, key \in FetchKeys : FetchLock(r, kind, key)
    \/ \E r \in Callers : FetchLookup(r)
    \/ \E r \in Callers : FetchFailed(r)
    \/ \E r \in Callers : FetchRelock(r)
    \/ \E r \in Callers : FetchInsert(r)
    \/ \E kind \in CacheKinds, key \in FetchKeys : FetchStale(kind, key)
    \/ \E c \in Callers : FetchProcBatch(c)

SpecLock == InitLock /\ [][NextLock]_vars

\* One caller of ProcBatch: its calls while the children write, the reader
\* tasks forward and the children exit.
InitDrain == EngineNew /\ NoBar

NextDrain ==
    \/ ProcBatchLock(1)
    \/ ProcBatchEnsure(1)
    \/ ProcBatchDrain(1)
    \/ \E key \in ProcKeys : ChildWrites(key)
    \/ \E key \in ProcKeys : ChildExits(key)
    \/ \E key \in ProcKeys : ReaderTask(key)

SpecDrain == InitDrain /\ [][NextDrain]_vars

\* The assembly of status lines alone: snapshots of up to MaxUnits chunks,
\* any of which may fail to serialize, are written one after the other.
InitLine == EngineNew /\ NoBar

NextLine ==
    \/ LineSnapshot
    \/ LineWrite

SpecLine == InitLine /\ [][NextLine]_vars

\* main.rs: any list of at most MaxUnits units is handed to Status::new.
InitNew ==
    /\ EngineNew
    /\ DiskInit
    /\ NoFailure
    /\ NoFetches
    /\ NoLine
    /\ machines = <<>>
    /\ stdin = <<>>
    /\ Spawned
    /\ Silent
    /\ NoInput
    /\ units \in UNION {[1..n -> UnitNames] : n \in 0..MaxUnits}
    /\ status = "None"
    /\ tasks = 0

NextNew ==
    \/ StatusNew
    \/ StatusRun
    \/ StatusSpawn
    \/ StatusInitialLine

SpecNew == InitNew /\ [][NextNew]_vars

(***************************************************************************)
(* Properties of the actors and the aggregator.                            *)
(***************************************************************************)
Range(f) == {f[i] : i \in DOMAIN f}

\* C1: when two or more clicks addressed to a unit arrive while its poll is
\* in flight, only the most recent of them is passed to on_click, exactly
\* once; the clicks it replaced are never passed to on_click.
C1_OnlyLatestClickApplied ==
    \A u \in Units :
       /\ superseded[u] \cap Range(clicked[u]) = {}
       /\ \A j, k \in 1..Len(clicked[u]) : j # k => clicked[u][j] # clicked[u][k]

\* C2: every click the receiver of a unit has gone past, and that carries
\* the unit's display name, was applied by on_click, or is buffered to be
\* applied, or was replaced by a later click of the same in-flight poll: no
\* click is lost otherwise, however many clicks arrive meanwhile.
C2_NoClickLost ==
    \A u \in Units :
       Configured(u) =>
          \A i \in 1..cursor[u] :
             chan[i] = I3Name(u) =>
                \/ i \in Range(clicked[u])
                \/ i \in superseded[u]
                \/ pending_click[u] = Some([id |-> i, name |-> chan[i]])

\* C3: a poll in flight is never waited for beyond 10 seconds; the step that
\* ends a poll 10 seconds after it was invoked publishes the timeout view
\* with health Error and sets the next-poll deadline to now plus the backoff
\* interval (decision Idle: the deadline is not pulled to now).
C3_TimeoutHandled ==
    /\ [](\A u \in Units : pc[u] = "polling" => now <= poll_start[u] + PollTimeout)
    /\ [][\A u \in Units :
             (pc[u] = "polling" /\ pc'[u] = "select"
                 /\ now >= poll_start[u] + PollTimeout)
             => /\ now = poll_start[u] + PollTimeout
                /\ view'[u] = [body |-> "timeout", health |-> "Error"]
                /\ changed'[u]
                /\ next_poll'[u] = now + PollBackoff(u)
                /\ next_poll'[u] > now]_vars

\* A unit shows the timeout error and waits out its backoff interval.
C3_Witness ==
    \E u \in Units :
       /\ Configured(u)
       /\ pc[u] = "select"
       /\ now = PollTimeout
       /\ view[u] = [body |-> "timeout", health |-> "Error"]
       /\ next_poll[u] = now + PollBackoff(u)

\* Some other unit's poll is in flight.
PollElsewhere(v) == \E u \in Units \ {v} : Configured(u) /\ pc[u] = "polling"

\* C4: while another unit's poll is in flight, every step a unit's actor is
\* ready for can be taken at once (its tick, poll tick, click, poll, and the
\* end of its own poll), and so can the aggregator's periodic line: none of
\* them waits for the other unit's poll.
C4_Isolation ==
    /\ \A v \in Units :
          (Configured(v) /\ PollElsewhere(v)) =>
             /\ (pc[v] = "select" /\ now >= tick_at[v]) => ENABLED TickArm(v)
             /\ (pc[v] = "select" /\ now >= poll_tick_at[v]) => ENABLED PollTickArm(v)
             /\ (pc[v] = "select" /\ now >= next_poll[v]) => ENABLED PollArm(v)
             /\ (pc[v] = "select" /\ ~recv_off[v] /\ cursor[v] < Len(chan))
                   => ENABLED ClickArm(v)
             /\ (pc[v] = "polling" /\ now >= PollEnd(v))
                   => ENABLED (PollReturns(v) \/ PollTimesOut(v))
    /\ (now >= agg_at /\ \E u \in Units : Configured(u) /\ pc[u] = "polling")
          => ENABLED AggregatorTick

\* The weather unit's poll has been stalled since the start; meanwhile the
\* clock unit was clicked, polled, published, and the bar shows its render.
C4_Witness ==
    /\ pc[0] = "polling"
    /\ poll_start[0] = 0
    /\ poll_due[0] = Never
    /\ now >= gcfg.min_polling_interval
    /\ clicked[1] # <<>>
    /\ view[1] = [body |-> "fresh", health |-> "Ok"]
    /\ latest[1] = make_chunk(1, view[1])
    /\ nlines >= 3

(***************************************************************************)
(* Properties of the freshness caches                                      *)
(***************************************************************************)
\* The step in which caller r issues a request.
Issued(r) == req[r].pc = "idle" /\ req'[r].pc # "idle"

\* C5: for HttpGet, FsRead and FsListDir alike, once a successful request has
\* cached a payload with deadline d, every later request for the key that
\* starts before d returns exactly that payload without I/O; a request that
\* starts after the deadline of the entry performs the I/O again, and its
\* success overwrites the entry.
C5_FreshPayloadServed ==
    [][\A r \in Callers :
          /\ Issued(r) =>
                LET q == req'[r]
                    ent == cache[q.kind][q.key]
                IN  /\ \A f \in fills[q.kind][q.key] :
                          now < f.fresh_until =>
                             /\ q.pc = "done"
                             /\ ~q.did_io
                             /\ q.payload = Some(f.payload)
                    /\ (ent # NoEntry /\ now > ent[1].fresh_until) => q.pc = "io"
          /\ (req[r].pc = "io" /\ req'[r].pc = "done" /\ req'[r].result = "Ok") =>
                /\ cache'[req[r].kind][req[r].key] # NoEntry
                /\ cache'[req[r].kind][req[r].key][1].payload = req'[r].payload[1]]_vars

\* C6: a failed fetch returns an error and leaves every cache as it was: no
\* entry is inserted, altered or removed, so a request for the key that had
\* to perform the I/O before the failure has to perform it after it.
C6_FailureLeavesCache ==
    [][\A r \in Callers :
          (req[r].pc = "io" /\ req'[r].pc = "done" /\ req'[r].result # "Ok") =>
             /\ req'[r].payload = <<>>
             /\ cache' = cache
             /\ Lookup(req[r].kind, req[r].key, now)' = Lookup(req[r].kind, req[r].key, now)]_vars

\* A fetch has failed while another caller's entry for the same key was in
\* the cache; the entry is still there and a third request is retrying.
C6_Witness ==
    \E r, o \in Callers :
       /\ req[r].pc = "done" /\ req[r].result = "HttpStatus"
       /\ cache[req[r].kind][req[r].key] # NoEntry
       /\ ~Fresh(cache[req[r].kind][req[r].key][1], now)
       /\ req[o].pc = "io" /\ req[o].kind = req[r].kind /\ req[o].key = req[r].key

(***************************************************************************)
(* Properties of the persistent subprocesses                               *)
(***************************************************************************)
RECURSIVE Concat(_)
Concat(batches) ==
    IF batches = <<>> THEN <<>> ELSE Head(batches) \o Concat(Tail(batches))

\* C7: whatever the interleaving of the callers, a ProcKey never has more
\* than one child process spawned for it, and once its entry exists every
\* later call leaves the entry (the process and its line queue) in place.
C7_OneChildPerKey ==
    /\ [](\A key \in ProcKeys :
             /\ children[key] <= 1
             /\ HasProc(key) => procs[key] = Some([child |-> 1]))
    /\ [][\A key \in ProcKeys : procs[key] # NoProc => procs'[key] = procs[key]]_vars

\* Both callers are inside proc_batch for the same key, whose entry the first
\* call made and from which a batch was already returned: one holds the lock
\* and is about to drain the existing queue, the other has not taken it yet.
C7_Witness ==
    \E key \in ProcKeys :
       /\ children[key] = 1
       /\ delivered[key] # <<>>
       /\ \E c \in Callers : /\ pcall[c] = [pc |-> "drain", key |-> key, max_lines |-> 1]
                             /\ plock = c
                             /\ rx[key] # <<>>
       /\ \E c \in Callers : pcall[c].pc = "idle"

\* C8: over all calls for one key, the returned batches put end to end list
\* the child's lines in the order it wrote them, none of them twice.
C8_LinesOnceInOrder ==
    \A key \in ProcKeys :
       LET lines == Concat(delivered[key]) IN
          /\ \A i, j \in 1..Len(lines) : i < j => lines[i] < lines[j]
          /\ \A i \in 1..Len(lines) : lines[i] \in 1..written[key]

\* Two calls have returned a batch each for the same key, while a line
\* written later is still on its way.
C8_Witness ==
    \E key \in ProcKeys :
       /\ Len(delivered[key]) >= 2
       /\ Concat(delivered[key]) = <<1, 2>>

(***************************************************************************)
(* Properties of the rate-limited client pool                              *)
(***************************************************************************)
\* The step in which caller r hands a request to a client.
Requested(r) == hreq[r].pc = "pool" /\ hreq'[r].pc # "pool"

\* C9 as claimed: no request is rejected because of the limit, and every
\* request that the limiter delays is sent in the end, none is dropped.
C9_EveryExcessRequestSent ==
    \A r \in Callers : hreq[r].pc \notin {"rejected", "abandoned"}

\* C9, amended: a request that finds its host's bucket empty is delayed, never
\* rejected; it is sent as soon as the bucket has a token, unless the poll
\* behind it has run into the 10-second timeout first, which drops it unsent.
\* A request to a host whose own bucket has a token is sent at once, whatever
\* the state of the other hosts' buckets, and a send takes a token from the
\* bucket of its own host only.
C9_DelayedNotRejected ==
    /\ [](\A r \in Callers : hreq[r].pc # "rejected")
    /\ [][\A r \in Callers :
             /\ (Requested(r) /\ hreq'[r].pc = "waiting") =>
                   /\ clients[hreq'[r].host] # NoClient
                   /\ tokens[LimiterOf(hreq'[r].host)] = 0
             /\ (hreq[r].pc = "waiting" /\ hreq'[r].pc # "waiting") =>
                   \/ /\ hreq'[r].pc = "sent"
                      /\ tokens[LimiterOf(hreq[r].host)] > 0
                   \/ /\ hreq'[r].pc = "abandoned"
                      /\ hreq[r].waited = PollTimeout
             /\ (hreq[r].pc = "waiting" /\ tokens[LimiterOf(hreq[r].host)] > 0) =>
                   hreq'[r].waited = hreq[r].waited
             /\ (hreq[r].pc # "sent" /\ hreq'[r].pc = "sent") =>
                   \A host \in Hosts \ {hreq'[r].host} :
                      /\ tokens'[host] = tokens[host]
                      /\ clients'[host] = clients[host]]_vars

\* One request was delayed, waited and has then been sent, leaving its
\* host's bucket empty, while a request to the other host went out undelayed.
C9_Witness ==
    \E r, o \in Callers :
       /\ hreq[r].pc = "sent" /\ hreq[r].waited > 0
       /\ tokens[LimiterOf(hreq[r].host)] = 0
       /\ hreq[o].pc = "sent" /\ hreq[o].waited = 0
       /\ hreq[o].host # hreq[r].host

(***************************************************************************)
(* Properties of the unit set (Status::new).                               *)
(***************************************************************************)
\* Two units of the list share a name.
SharedName == Cardinality(Range(units)) < Len(units)

\* C11: when two units of the list handed to the constructor share a name,
\* the constructor fails: the unit set never becomes Ok, no unit task is
\* spawned, and neither the header nor a status line is written.  A unit set
\* that was constructed has pairwise distinct names, and its list of units
\* never changes afterwards.
C11_DuplicateRejected ==
    /\ [](SharedName =>
             /\ status \in {"None", "Err"}
             /\ tasks = 0
             /\ ~header
             /\ nlines = 0)
    /\ [](status \in {"Ok", "Running", "Parked"} =>
             \A i, j \in 1..Len(units) : i # j => units[i] # units[j])
    /\ [][status # "None" => units' = units]_vars

\* The constructor has refused a list of three units whose first and last
\* share a name, and nothing was spawned or written.
C11_Witness ==
    /\ Len(units) = 3
    /\ units[1] = units[3]
    /\ units[1] # units[2]
    /\ status = "Err"
    /\ tasks = 0
    /\ ~header

(***************************************************************************)
(* Properties of the status lines (run_empty_status_machines).             *)
(***************************************************************************)
\* The handle shown at position i of a status line: the last configured
\* unit comes first.
HandleAt(i) == Len(machines) - i

\* C12: every status line written, the initial one and each periodic one,
\* has exactly one entry per configured unit, in reverse configuration
\* order, each entry being the aggregator's snapshot of that unit; a unit
\* whose view did not change since the previous line keeps its entry.
C12_LineComplete ==
    /\ [](nlines > 0 =>
             /\ Len(line) = Len(machines)
             /\ \A i \in 1..Len(line) :
                   /\ line[i].name = <<machines[HandleAt(i) + 1], HandleAt(i)>>
                   /\ line[i] = latest[HandleAt(i)])
    /\ [][(nlines > 0 /\ nlines' = nlines + 1) =>
             \A i \in 1..Len(machines) :
                ~changed[HandleAt(i)] => line'[i] = line[i]]_vars

\* A third line shows the fresh clock first and then the weather unit, which
\* still shows the loading view of the initial line.
C12_Witness ==
    /\ nlines >= 3
    /\ Len(line) = 2
    /\ line[1].name = <<"Time", 1>>
    /\ line[1].full_text[2] = "fresh"
    /\ line[2].name = <<"Weather", 0>>
    /\ line[2].full_text[2] = "loading"

\* C13: no status line is written before the header; the aggregator does
\* not reach its loop, where the first periodic tick is awaited, before the
\* initial line is written; the initial line shows, for every unit, the view
\* its actor holds published at that moment; and with at least one unit
\* configured no line written has zero entries.
C13_HeaderThenInitialLine ==
    /\ [](nlines > 0 => header)
    /\ [](apc = "loop" => nlines >= 1)
    /\ []((nlines > 0 /\ Len(machines) > 0) => Len(line) > 0)
    /\ [][(nlines = 0 /\ nlines' = 1) =>
             /\ apc = "initial"
             /\ header
             /\ Len(line') = Len(machines)
             /\ \A i \in 1..Len(machines) :
                   line'[i] = make_chunk(HandleAt(i), view[HandleAt(i)])]_vars

\* The initial line is the only line so far, the loop is entered, and the
\* clock, which polled before the aggregator started, already shows its
\* fresh view in it.
C13_Witness ==
    /\ header
    /\ apc = "loop"
    /\ nlines = 1
    /\ Len(line) = 2
    /\ line[1].full_text[2] = "fresh"
    /\ line[2].full_text[2] = "loading"

\* C14: a snapshot the aggregator refreshes on a tick is the chunk of the
\* view that is in the unit's watch channel at that moment, which is the
\* view its actor published last; and no published view is missed for good:
\* whenever a snapshot differs from the chunk of the published view the
\* channel is marked as changed, so that after every tick each snapshot, and
\* the line written, shows the view published last (views replaced between
\* two ticks are never shown).
C14_SnapshotIsLatestPublished ==
    /\ [](apc = "loop" =>
             \A h \in Units :
                (Configured(h) /\ ~changed[h]) => latest[h] = make_chunk(h, view[h]))
    /\ [][(apc = "loop" /\ nlines' = nlines + 1) =>
             \A i \in 1..Len(machines) :
                /\ changed[HandleAt(i)] =>
                      latest'[HandleAt(i)] = make_chunk(HandleAt(i), view[HandleAt(i)])
                /\ ~changed'[HandleAt(i)]
                /\ line'[i] = make_chunk(HandleAt(i), view[HandleAt(i)])]_vars

\* The weather unit was clicked, which published its cached view, and has
\* then polled, which published the fresh one; the periodic line written
\* since shows the fresh view and the channel is no longer marked.
C14_Witness ==
    /\ apc = "loop"
    /\ nlines = 2
    /\ clicked[0] = <<1>>
    /\ view[0].body = "fresh"
    /\ ~changed[0]
    /\ latest[0] = make_chunk(0, view[0])
    /\ line[2] = latest[0]

(***************************************************************************)
(* Properties of the actor loop (spawn_machine_actor).                     *)
(***************************************************************************)
\* How many of the conditions in the set hold.
HowMany(conds) == Cardinality({i \in DOMAIN conds : conds[i]})

\* C15: while the poll of a unit is in flight no other call is made on its
\* machine and no other arm of its loop runs: its applied clicks, its
\* published view, its timers, its receiver and its buffered click stay as
\* they are until the poll ends.  Every step of an actor is one arm of the
\* loop: it consumes at most one of the render tick, the poll tick, a click
\* and the poll deadline, and it applies at most one click.
C15_OneCallAtATime ==
    [][\A u \in Units :
          /\ (pc[u] = "polling" /\ pc'[u] = "polling") =>
                /\ clicked'[u] = clicked[u]
                /\ view'[u] = view[u]
                /\ changed'[u] => changed[u]
                /\ tick_at'[u] = tick_at[u]
                /\ poll_tick_at'[u] = poll_tick_at[u]
                /\ cursor'[u] = cursor[u]
                /\ next_poll'[u] = next_poll[u]
                /\ pending_click'[u] = pending_click[u]
          /\ HowMany(<<tick_at'[u] # tick_at[u],
                       poll_tick_at'[u] # poll_tick_at[u],
                       cursor'[u] # cursor[u],
                       pc'[u] # pc[u]>>) <= 1
          /\ Len(clicked'[u]) <= Len(clicked[u]) + 1
          /\ (pc[u] = "select" /\ pc'[u] = "polling") =>
                /\ clicked'[u] = clicked[u]
                /\ view'[u] = view[u]]_vars

\* A poll is in flight while the render tick is due and a click waits in
\* the receiver.
C15_Witness ==
    /\ pc[0] = "polling"
    /\ now >= tick_at[0]
    /\ now >= poll_tick_at[0]
    /\ cursor[0] < Len(chan)

\* The ways a poll fails.
PollFailures == {"Unit", "Transport", "Timeout"}

C17_HealthFollowsOutcome ==
    [][\A u \in Units :
          (pc[u] = "polling" /\ pc'[u] = "select" /\ pending_click[u] = <<>>) =>
             /\ changed'[u]
             /\ polled'[u] \in PollFailures \cup {"Loading", "Ready"}
             /\ polled'[u] \in PollFailures => view'[u].health = "Error"
             /\ view'[u].health = "Degraded" <=> polled'[u] = "Loading"
             /\ view'[u].health = "Ok" <=> polled'[u] = "Ready"]_vars

\* A poll has ended with the availability Loading and the unit shows the
\* degraded loading view it published.
C17_Witness ==
    /\ polled[0] = "Loading"
    /\ pc[0] = "select"
    /\ view[0] = [body |-> "loading", health |-> "Degraded"]
    /\ changed[0]

\* C18: a unit whose configuration failed validation at initialization
\* shows an Error-health view from then on: no later poll or click replaces
\* it with a view of another health.
C18_ErrorRenderPermanent ==
    \A u \in Units : Configured(u) => view[u].health = "Error"

(***************************************************************************)
(* Properties of the click reader (read_clicks_task).                      *)
(***************************************************************************)
\* The clicks of the lines of ls that parse, in the order of the lines.
RECURSIVE ClicksOf(_)
ClicksOf(ls) ==
    IF ls = <<>> THEN <<>>
    ELSE (IF ParseLine(Head(ls)) = <<>> THEN <<>> ELSE ParseLine(Head(ls)))
            \o ClicksOf(Tail(ls))

\* C19: the reader skips exactly the first line: the clicks broadcast are
\* the clicks of the lines read after the first that parse once the commas
\* at both ends are stripped, in input order.
C19_OnlyFirstLineSkipped ==
    chan = (IF read = <<>> THEN <<>> ELSE ClicksOf(Tail(read)))

\* C20: a line that cannot be parsed as a click does not end the reader:
\* the click of every line that parses and was read after such a line has
\* been broadcast.
C20_ReaderSurvivesBadLine ==
    \A i, j \in 1..Len(read) :
       (i < j /\ ParseLine(read[i]) = <<>> /\ ParseLine(read[j]) # <<>>) =>
          \E k \in 1..Len(chan) : chan[k] = ParseLine(read[j])[1]

(***************************************************************************)
(* Properties of the responses of the engine (EffectOut::expect).          *)
(***************************************************************************)
\* The variant that carries a payload of each type.
Carries ==
    {<<"HttpResponse", "Http">>, <<"Vec<String>", "ProcLines">>,
     <<"Bytes", "FsBytes">>, <<"DirEntries", "DirEntries">>}

\* C21: extracting a payload of a type from a response answers Ok with the
\* payload of the response when the variant of the response carries that
\* type, and an Err value, never a panic, for each of the other three
\* variants.
C21_ExpectIsTotal ==
    \A r \in Callers :
       extract[r].pc = "done" =>
          IF <<extract[r].want, extract[r].out.variant>> \in Carries
          THEN extract[r].result = [kind |-> "Ok", value |-> extract[r].out.payload]
          ELSE extract[r].result.kind = "Err"

\* One caller got the payload of an Http response as an HttpResponse, the
\* other asked a DirEntries response for bytes and got an error value.
C21_Witness ==
    /\ extract[1].pc = "done"
    /\ extract[1].want = "HttpResponse" /\ extract[1].out.variant = "Http"
    /\ extract[1].result.kind = "Ok"
    /\ extract[2].pc = "done"
    /\ extract[2].want = "Bytes" /\ extract[2].out.variant = "DirEntries"
    /\ extract[2].result.kind = "Err"

(***************************************************************************)
(* Properties of clicks and deadlines (spawn_machine_actor).               *)
(***************************************************************************)
\* C22: when the receiver of a unit takes a click whose name is not the
\* display name "<kind>::<handle>" of the unit, on_click is not called on
\* the unit, and its published view, its buffered click and its next-poll
\* deadline stay as they are; nor does the broadcast of any click change
\* them.
C22_ForeignClickIgnored ==
    [][\A u \in Units :
          (Configured(u)
             /\ \/ /\ cursor'[u] = cursor[u] + 1
                   /\ chan[cursor[u] + 1] # <<machines[u + 1], u>>
                \/ chan' # chan) =>
             /\ clicked'[u] = clicked[u]
             /\ view'[u] = view[u]
             /\ changed'[u] = changed[u]
             /\ pending_click'[u] = pending_click[u]
             /\ next_poll'[u] = next_poll[u]
             /\ pc'[u] = pc[u]]_vars

\* The click on the weather unit has reached both receivers: the weather
\* unit applied it, the clock took it and did not.
C22_Witness ==
    /\ chan = <<<<"Weather", 0>>>>
    /\ cursor[0] = 1 /\ clicked[0] = <<1>>
    /\ cursor[1] = 1 /\ clicked[1] = <<>>

\* The machines whose on_click always answers PollNow.
ClickPollsNow(u) == Configured(u) /\ machines[u + 1] \in {"Weather", "Time"}

\* C23: the step that applies a click to a unit whose on_click answers
\* PollNow sets the next-poll deadline of the unit to the current time; a
\* waiting actor whose deadline is reached can start its poll at once, and
\* the clock does not move before it has: the poll does not wait out the
\* rest of the poll interval.
C23_ClickPollsNow ==
    /\ [][\A u \in Units :
             (ClickPollsNow(u) /\ Len(clicked'[u]) > Len(clicked[u])) =>
                /\ next_poll'[u] = now
                /\ pc'[u] = "select"]_vars
    /\ [][\A u \in Units :
             (Configured(u) /\ pc[u] = "select" /\ next_poll[u] <= now) =>
                /\ now' = now
                /\ pc'[u] = "polling" => poll_start'[u] = now]_vars
    /\ [](\A u \in Units :
             (Configured(u) /\ pc[u] = "select" /\ next_poll[u] <= now) =>
                ENABLED PollArm(u))

\* The first poll of the weather unit returned at 3 s, which put the next
\* poll at 13 s; the click was applied and the second poll started at 3 s.
C23_Witness ==
    /\ clicked[0] = <<1>>
    /\ polled[0] = "Ready"
    /\ pc[0] = "polling"
    /\ poll_start[0] = 3
    /\ now = 3

\* C24: the step that ends a poll, whatever its outcome, leaves the
\* next-poll deadline at the current time when on_poll_ok or a buffered
\* click decided PollNow, and else at exactly the current time plus the
\* backoff interval, the larger of the poll interval of the unit and the
\* global minimum; a failed poll decides Idle.
C24_BackoffThenDecision ==
    [][\A u \in Units :
          (pc[u] = "polling" /\ pc'[u] = "select") =>
             /\ decided'[u] \in {"Idle", "PollNow"}
             /\ decided'[u] = "PollNow" => next_poll'[u] = now
             /\ decided'[u] = "Idle" =>
                   next_poll'[u] = now + Max(cfg[u].poll_interval, gcfg.min_polling_interval)
             /\ (polled'[u] \in PollFailures /\ pending_click[u] = <<>>) =>
                   decided'[u] = "Idle"
             /\ now' = now]_vars

\* A poll that returned at 3 s ended with the decision PollNow: the next
\* poll is due at 3 s, not at 13 s.
C24_Witness ==
    /\ decided[0] = "PollNow"
    /\ polled[0] = "Ready"
    /\ pc[0] = "select"
    /\ now = 3
    /\ next_poll[0] = 3

(***************************************************************************)
(* Properties of a poll that times out (machine/units/disk.rs).            *)
(***************************************************************************)
\* C25: a poll that times out has no effect on the unit's State: the State
\* the actor uses after the timeout equals the State before that poll was
\* invoked.
C25_TimeoutKeepsState ==
    dpoll.out = "Timeout" => disk = dpoll.before

(***************************************************************************)
(* Properties of the rendering of unit errors (render_poll_error).         *)
(***************************************************************************)
\* The sequence s begins with the sequence p.
IsPrefix(p, s) == Len(p) <= Len(s) /\ SubSeq(s, 1, Len(p)) = p

\* The view the rendering of the message msg is to give.
RendersAs(v, msg) ==
    /\ v.kind = "View"
    /\ v.health = "Error"
    /\ contains_429(msg) => v.body = <<"HTTP 429">>
    /\ ~contains_429(msg) =>
          /\ IsPrefix(v.body, msg)
          /\ ByteLen(v.body) <= TruncateAt

\* C26: rendering a poll failure is total: for every unit error message the
\* actor produces an Error-health view, "HTTP 429" when the message
\* contains "429" and otherwise the message cut to at most 80 bytes, and
\* then continues its loop.
C26_RenderIsTotal ==
    [][RenderFailed => (RendersAs(shown', failed[1]) /\ failed' = <<>>)]_vars

(***************************************************************************)
(* Properties of concurrent requests to the effects engine                 *)
(***************************************************************************)
\* The callers r and o both perform the I/O of the same key at this moment.
BothFetch(r, o) ==
    /\ r # o
    /\ req[r].pc = "io" /\ req[o].pc = "io"
    /\ req[r].kind = req[o].kind
    /\ req[r].key = req[o].key

\* C27: when two requests for the same key are issued concurrently while no
\* fresh entry exists, the I/O is performed only once: never do two callers
\* perform the I/O of one key at the same time.
C27_SingleFlight == \A r, o \in Callers : ~BothFetch(r, o)

(***************************************************************************)
(* Properties of the mutexes of the effects engine                         *)
(***************************************************************************)
\* C28: no cache lock is held while the I/O is in progress and each effect
\* kind has its own lock: a caller whose I/O is in progress holds no mutex,
\* and while an HTTP fetch is in progress a caller that is in no call can
\* at once lock the cache of an FsRead, of an FsListDir, of an HttpGet for
\* another key, and the process map of a ProcBatch.
C28_IoHoldsNoLock ==
    [](\A o \in Callers :
          fetch[o].pc = "io" =>
             /\ \A kind \in CacheKinds : guard[kind] # o
             /\ plock # o
             /\ fetch[o].kind = "http" =>
                   \A r \in Callers \ {o} :
                      Resting(r) =>
                         /\ \A kind \in CacheKinds, key \in FetchKeys :
                               (kind # "http" \/ key # fetch[o].key) =>
                                  ENABLED FetchLock(r, kind, key)
                         /\ ENABLED ProcBatchLock(r))

\* While caller 1 waits for the answer to its HttpGet, caller 2 holds the
\* mutex of the file cache for its lookup.
C28_Witness ==
    /\ fetch[1].pc = "io" /\ fetch[1].kind = "http"
    /\ fetch[2].pc = "lookup" /\ fetch[2].kind = "fs"
    /\ guard["fs"] = 2

(***************************************************************************)
(* Properties of a subprocess that has exited (proc_batch).                *)
(***************************************************************************)
\* The step in which the proc_batch call of caller c for the key returns.
ProcReturns(c, key) ==
    /\ pcall[c].pc # "idle"
    /\ pcall[c].key = key
    /\ pcall'[c].pc = "idle"

\* C29 as claimed: once the subprocess of a key has exited and its buffered
\* lines are exhausted, every ProcBatch call for the key returns a transport
\* error; the entry is kept and the command is not spawned again.
C29_ErrorOnceExited ==
    [][\A key \in ProcKeys :
          (procs[key] # NoProc /\ exited[key] /\ pipe[key] = <<>> /\ rx[key] = <<>>) =>
             /\ procs'[key] = procs[key]
             /\ children'[key] = children[key]
             /\ \A c \in Callers :
                   ProcReturns(c, key) => batch'[key].kind = "Err"]_vars

\* C29: once the reader task of a key's subprocess has ended (it has read
\* the end of the child's output and dropped the sender) and the queue is
\* empty, every ProcBatch call for the key that asks for at least one line
\* returns a transport error, now and ever after: the queue stays empty and
\* disconnected, the entry is kept and the command is not spawned again.
C29_ErrorOnceDisconnected ==
    [][\A key \in ProcKeys :
          (procs[key] # NoProc /\ reader[key] = "ended" /\ rx[key] = <<>>) =>
             /\ reader'[key] = "ended"
             /\ rx'[key] = <<>>
             /\ procs'[key] = procs[key]
             /\ children'[key] = children[key]
             /\ \A c \in Callers :
                   (ProcReturns(c, key) /\ pcall[c].max_lines >= 1) =>
                      batch'[key].kind = "Err"]_vars

\* The child of p1 wrote lines that were delivered, the reader task ended,
\* a call has answered with the error and caller 1 is in a later call.
C29_Witness ==
    /\ delivered["p1"] # <<>>
    /\ reader["p1"] = "ended" /\ rx["p1"] = <<>>
    /\ batch["p1"].kind = "Err"
    /\ pcall[1].pc = "drain" /\ pcall[1].key = "p1" /\ pcall[1].max_lines = 1

\* C30: no line that a ProcBatch call removes from the queue is discarded:
\* the lines the last call for a key took are the lines it returned, also
\* when it found the queue disconnected.
C30_NoLineDiscarded ==
    \A key \in ProcKeys :
       /\ batch[key].kind = "Ok" => batch[key].lines = batch[key].taken
       /\ batch[key].kind = "Err" => batch[key].taken = <<>>

C32_HookDecidesMessage ==
    [][(RenderFailed /\ shown'.kind = "View") =>
          \A machine \in {"Weather", "Machine"} :
             UnitHook(machine, failed[1]).kind = "Markup" =>
                shown'.body = UnitHook(machine, failed[1]).body]_vars

(***************************************************************************)
(* Properties of the views of a unit that has not polled yet.              *)
(***************************************************************************)
\* C33: a unit that has not yet completed a successful poll never has an
\* Ok-health published view.  Stated for the units none of whose polls has
\* ended at all: the view of such a unit, from init, on_tick or on_click,
\* has health Degraded or Error.
C33_NoOkBeforeFirstPoll ==
    \A u \in Units :
       (Configured(u) /\ polled[u] = "None") => view[u].health \in {"Degraded", "Error"}

(***************************************************************************)
(* Properties of the text of a status line                                 *)
(***************************************************************************)
\* The JSON objects of the chunks of s that serialize, in order.
RECURSIVE Serialized(_)
Serialized(s) ==
    IF s = <<>> THEN <<>>
    ELSE (IF Head(s).serializable THEN <<Head(s).full_text>> ELSE <<>>)
            \o Serialized(Tail(s))

\* The objects os, separated by commas, inside one array.
RECURSIVE Separated(_)
Separated(os) ==
    IF os = <<>> THEN <<>>
    ELSE IF Len(os) = 1 THEN <<os[1]>>
    ELSE <<os[1], ",">> \o Separated(Tail(os))

C35_LinesOnlyOnTicks ==
    [][/\ (nlines' # nlines \/ line' # line) =>
             /\ nlines' = nlines + 1
             /\ \/ apc = "initial" /\ apc' = "loop" /\ nlines = 0
                \/ apc = "loop" /\ now >= agg_at /\ agg_at' > now
       /\ (apc = "loop" /\ agg_at' # agg_at) =>
             /\ nlines' = nlines + 1
             /\ \A i \in 1..Len(machines) :
                   line'[i] = make_chunk(HandleAt(i), view[HandleAt(i)])
       /\ view' # view => (nlines' = nlines /\ line' = line /\ agg_at' = agg_at)]_vars

\* Between two ticks: the weather unit has published a view that the last
\* line does not show, and no line was written for it.
C35_Witness ==
    /\ apc = "loop"
    /\ now < agg_at
    /\ nlines = 2
    /\ changed[0]
    /\ line[2] # make_chunk(0, view[0])

(***************************************************************************)
(* Properties of the buffered click (spawn_machine_actor)                  *)
(***************************************************************************)
\* C36: the slot of the buffered click is empty whenever the actor waits in
\* select! (it is never filled at all), and every click the loop receives
\* for its unit is passed to on_click in the step that receives it.
C36_SlotAlwaysEmpty ==
    /\ [](\A u \in Units : pending_click[u] = <<>>)
    /\ [][\A u \in Units :
             (/\ InSelect(u)
              /\ ~Lagged(u)
              /\ cursor'[u] = cursor[u] + 1
              /\ NextClick(u).name = I3Name(u)) =>
                clicked'[u] = Append(clicked[u], cursor[u] + 1)]_vars

\* The actor has received the click on its unit and passed it to on_click;
\* it waits in select! again and the slot is empty.
C36_Witness ==
    /\ InSelect(0)
    /\ cursor[0] = 1
    /\ chan[1] = I3Name(0)
    /\ clicked[0] = <<1>>
    /\ pending_click[0] = <<>>

(***************************************************************************)
(* Properties of the start of an actor (spawn_machine_actor)               *)
(***************************************************************************)
\* C37: the first poll of a unit is scheduled for the moment its actor
\* starts, whatever the decision of init, and it is attempted at that
\* moment: as long as the actor has started and no poll of it has begun,
\* the poll is due and no time has passed since the start, so that no
\* poll-tick was waited for.
C37_FirstPollAtStart ==
    \A u \in Units :
       (Configured(u) /\ pc[u] = "select" /\ polled[u] = "None") =>
          /\ next_poll[u] <= now
          /\ now = 0
          /\ now < poll_tick_at[u]

\* The init of the unit answered Idle, and its first poll is in flight at
\* the moment the actor started.
C37_Witness ==
    /\ decided[0] = "Idle"
    /\ polled[0] = "None"
    /\ pc[0] = "polling"
    /\ poll_start[0] = 0
    /\ now = 0

(***************************************************************************)
(* Properties of a request delayed past the poll timeout                   *)
(***************************************************************************)
\* C38: a request that the limiter still delays when the poll timeout is
\* reached is delayed no longer: the poll ends as a timeout, rendered with
\* health Error; from then on the request is not sent (it takes no token)
\* and the caller's return writes no cache entry.
C38_DelayedPastTimeoutAbandoned ==
    /\ [](\A r \in Callers :
             /\ hreq[r].pc = "waiting" => hreq[r].waited <= PollTimeout
             /\ hreq[r].pc = "abandoned" =>
                   /\ hreq[r].waited = PollTimeout
                   /\ hreq[r].outcome = "Timeout"
                   /\ hreq[r].view.health = "Error")
    /\ [][\A r \in Callers :
             /\ (hreq[r].pc = "waiting" /\ hreq[r].waited = PollTimeout
                   /\ hreq'[r] # hreq[r]) =>
                      \/ hreq'[r].pc = "abandoned"
                      \/ hreq'[r].pc = "sent" /\ tokens[LimiterOf(hreq[r].host)] > 0
             /\ (hreq[r].pc = "abandoned" /\ hreq'[r] # hreq[r]) =>
                   /\ hreq'[r] = NoRequest
                   /\ tokens' = tokens
                   /\ cache' = cache]_vars

\* A request waited for the whole poll timeout and was dropped with its
\* poll, which ended as a timeout; the key it asked for has no cache entry.
C38_Witness ==
    \E r \in Callers :
       /\ hreq[r].pc = "abandoned"
       /\ hreq[r].waited = PollTimeout
       /\ hreq[r].view = [body |-> "timeout", health |-> "Error"]
       /\ cache["http"][hreq[r].key] = NoEntry

(***************************************************************************)
(* Properties of the cache key                                             *)
(***************************************************************************)
\* C39: whether a request is answered from the cache depends on its key
\* alone: with an entry under its key whose deadline is ahead it returns
\* that entry's payload without I/O, whatever its URL and its own freshness
\* duration, and leaves the entry as it is; without one it performs the
\* I/O.  The deadline of an entry is the start of the request that filled
\* it plus the duration that request gave.
C39_KeyAloneDecides ==
    [][\A r \in Callers :
          /\ Issued(r) =>
                LET q == req'[r]
                    ent == cache[q.kind][q.key]
                IN  /\ cache' = cache
                    /\ IF ent # NoEntry /\ now < ent[1].fresh_until
                       THEN /\ q.pc = "done"
                            /\ ~q.did_io
                            /\ q.payload = Some(ent[1].payload)
                       ELSE q.pc = "io"
          /\ (req[r].pc = "io" /\ req'[r].pc = "done" /\ req'[r].result = "Ok") =>
                cache'[req[r].kind][req[r].key] =
                   Some([fresh_until |-> req[r].started + req[r].fresh_for,
                         payload |-> req'[r].payload[1]])]_vars

\* One caller has filled the entry with a request for one URL, started at
\* 0 with a duration of two seconds; a second later the other caller,
\* asking for the same key with another URL, was answered with that payload
\* from the cache.
C39_Witness ==
    \E r, o \in Callers :
       /\ req[o].pc = "done" /\ req[o].did_io /\ req[o].result = "Ok"
       /\ req[r].pc = "done" /\ ~req[r].did_io
       /\ req[r].key = req[o].key
       /\ req[r].url # req[o].url
       /\ req[r].payload = req[o].payload
       /\ cache["http"][req[r].key] =
             Some([fresh_until |-> 2, payload |-> req[o].payload[1]])
       /\ now = 1

(***************************************************************************)
(* Properties of the client pool                                           *)
(***************************************************************************)
\* C40: the client of a host is never replaced, also when two callers make
\* the first request to the host at the same time: it is built once, with
\* the spec of the request that built it, and a later request to the host
\* that carries another spec is handed the existing client, whose limiter
\* keeps its parameters and its tokens.
C40_OneClientPerHost ==
    /\ [][\A host \in Hosts :
             /\ clients[host] # NoClient => clients'[host] = clients[host]
             /\ (clients[host] = NoClient /\ clients'[host] # NoClient) =>
                   \E r \in Callers :
                      /\ hreq[r].pc = "pool" /\ hreq'[r].pc # "pool"
                      /\ hreq[r].host = host
                      /\ clients'[host] = Some(hreq[r].spec)
                      /\ tokens'[LimiterOf(host)] = hreq[r].spec.burst - 1]_vars
    /\ [][\A r \in Callers :
             (hreq[r].pc = "pool" /\ hreq'[r].pc # "pool"
                /\ clients[hreq[r].host] # NoClient) =>
                   /\ clients' = clients
                   /\ tokens'[LimiterOf(hreq[r].host)] \in
                         {tokens[LimiterOf(hreq[r].host)],
                          tokens[LimiterOf(hreq[r].host)] - 1}]_vars

\* The client of a host was built for a request with a burst of 1, which
\* took its only token; a later request to that host, which carries a
\* burst of 2, has looked the host up and is handed that client, not one
\* of its own.
C40_Witness ==
    \E r, o \in Callers, host \in Hosts :
       /\ clients[host] = Some([per |-> 60, burst |-> 1])
       /\ tokens[LimiterOf(host)] = 0
       /\ hreq[o].pc = "sent" /\ hreq[o].host = host
       /\ hreq[r].pc = "pool" /\ hreq[r].host = host
       /\ hreq[r].spec.burst = 2
       /\ ~hreq[r].built
       /\ hreq[r].client = clients[host]

====
